---- MODULE Spec2Model ----
(***************************************************************************)
(* Model of the copper engine: the asynchronous texture loader            *)
(* (src/src/models/loader.rs: ModelLoader, its worker pool, the result     *)
(* channel and the part of the graphics library the loader talks to), the  *)
(* resource manager that owns a loader (src/src/models/                    *)
(* resource_manager.rs) and the frame of the master renderer               *)
(* (src/src/renderers/master_renderer.rs).                                 *)
(***************************************************************************)
EXTENDS Integers, Sequences, FiniteSets, TLC

(* ---------------------------------------------------------------------- *)
(* Bounds of the exploration                                               *)
(* ---------------------------------------------------------------------- *)
\* number of standalone texture requests explored
MaxTextures == 2
\* number of cubemap requests explored
MaxCubemaps == 2
\* number of decodes the callers of the explored runs keep outstanding: a
\* request is made when nothing is in flight, or while the in-flight counter
\* stays within it
MaxInFlight == 2
\* number of decode jobs the pool runs at the same time in the explored
\* schedules (the pool of loader.rs:71 has 8 threads; every schedule of a
\* smaller pool is a schedule of the larger one)
MaxRunning == 2
\* number of load requests explored together with model building, faults and
\* teardown
MaxLoads == 2
\* number of vertex arrays and of buffers the explored callers create
MaxModels == 1
MaxBuffers == 6
\* number of resources the explored callers of the resource manager
\* initialize
MaxInits == 3
\* length of each entity list handed to MasterRenderer::render
MaxEntities == 2
\* number of water tiles handed to MasterRenderer::render
MaxWaterTiles == 1

(* ---------------------------------------------------------------------- *)
(* Program constants and input sets                                        *)
(* ---------------------------------------------------------------------- *)
\* a cubemap has 6 faces: `for i in 1..=6`, `len() == 6`
CubemapFaces == 6

\* the file of the n-th standalone request and the folder of the n-th cubemap
\* request: callers ask for pairwise different files (the loader never looks
\* at a name, it only hands it to the decoder)
texture_file(n) == "res/textures/" \o ToString(n) \o ".png"
cube_map_folder_of(n) == "res/textures/cube_maps/" \o ToString(n)

\* format!("{}/{}.png", cube_map_folder, i)
face_filename(cube_map_folder, i) ==
    cube_map_folder \o "/" \o ToString(i) \o ".png"

\* load_rgba_2d_texture: the decoded image of a file
load_rgba_2d_texture(file_name) == [pixels_of |-> file_name]

\* gl::helper::CUBEMAP_FACES: the six cubemap face targets
CUBEMAP_FACES ==
    << "TEXTURE_CUBE_MAP_POSITIVE_X", "TEXTURE_CUBE_MAP_NEGATIVE_X",
       "TEXTURE_CUBE_MAP_POSITIVE_Y", "TEXTURE_CUBE_MAP_NEGATIVE_Y",
       "TEXTURE_CUBE_MAP_POSITIVE_Z", "TEXTURE_CUBE_MAP_NEGATIVE_Z" >>

(* ---------------------------------------------------------------------- *)
(* TextureId                                                               *)
(* ---------------------------------------------------------------------- *)
Empty == [tag |-> "Empty"]
Loading(token) == [tag |-> "Loading", id |-> token]
Loaded(handle) == [tag |-> "Loaded", id |-> handle]
FboTexture(handle) == [tag |-> "FboTexture", id |-> handle]

\* ExtraInfo::default()
ExtraInfoDefault == [is_cubemap |-> FALSE, order |-> 0, cubemap_token |-> 0]

(* ---------------------------------------------------------------------- *)
(* State                                                                   *)
(* ---------------------------------------------------------------------- *)
VARIABLES
    tex_list,                      \* ModelLoader.tex_list
    texture_token_map,             \* ModelLoader.texture_token_map
    texture_token_gen,             \* ModelLoader.texture_token_gen
    loading_texture_cnt,           \* ModelLoader.loading_texture_cnt
    cubemap_token_gen,             \* ModelLoader.cubemap_token_gen
    unprocessed_cubemap_textures,  \* ModelLoader.unprocessed_cubemap_textures
    thread_pool,                   \* jobs handed to the pool, oldest first
    channel,                       \* results sent and not yet received
    gl_textures,                   \* graphics library: handle -> content
    gl_calls,                      \* tex_image_2d calls made by the step just taken
    issued,                        \* requests so far: the TextureId returned,
                                   \* what was asked for, the jobs enqueued
    drained,                       \* texture_queue_ids of the results received
    panicked,                      \* "none", or the message of the panic
    vao_list,                      \* ModelLoader.vao_list
    vbo_list,                      \* ModelLoader.vbo_list
    gl_vertex_arrays,              \* graphics library: vertex array names in use
    gl_buffers,                    \* graphics library: buffer names in use
    gl_deleted,                    \* graphics library: the delete calls received
    dropped,                       \* the loader has been dropped
    worker_panics,                 \* panics of pool threads, counted per message
    unreadable,                    \* the files that are missing or corrupt
    manager,                       \* the ResourceManager's own fields
    scene,                         \* the arguments of MasterRenderer::render
    render_pc,                     \* the position of the render call
    gl_log,                        \* what the render call has done so far
    pass_log,                      \* the calls the per-category renderers
                                   \* received in the stage just run
    shader_program,                \* a shader, the lights it was last given
                                   \* and the uniforms of its program
    shadow_box,                    \* the fields of the ShadowBox
    world_to_lightspace,           \* the sun direction last given to the
                                   \* shadow map renderer and the view it
                                   \* built from it
    particle_renderer,             \* the particles ParticleRenderer::render
                                   \* was given, its position and the state
                                   \* of the graphics library it works on
    scene_pc                       \* the scene being set up and how far its
                                   \* setup has come

\* the loader, its pool and channel, and the textures of the graphics library
loader_vars == << tex_list, texture_token_map, texture_token_gen,
                  loading_texture_cnt, cubemap_token_gen,
                  unprocessed_cubemap_textures, thread_pool, channel,
                  gl_textures, gl_calls, issued, drained, panicked >>

\* the loader's model handles, its teardown and the faults of its workers
life_vars == << vao_list, vbo_list, gl_vertex_arrays, gl_buffers, gl_deleted,
                dropped, worker_panics, unreadable >>

\* the frame being rendered
shading_vars == << shader_program, shadow_box, world_to_lightspace,
                   particle_renderer, scene_pc >>

render_vars == << scene, render_pc, gl_log, pass_log, shading_vars >>

vars == << loader_vars, life_vars, manager, render_vars >>

\* the fields of ModelLoader and the graphics library's textures
loader_state == << tex_list, texture_token_map, texture_token_gen,
                   loading_texture_cnt, cubemap_token_gen,
                   unprocessed_cubemap_textures, gl_textures >>

EmptyMap == [x \in {} |-> 0]

\* Option
None == [tag |-> "None"]
Some(value) == [tag |-> "Some", value |-> value]

\* the messages of the two expect() calls of the worker closure
FailedToLoad == "Failed to load texture"
FailedToSend == "Failed to send"

NoWorkerPanics == [message \in {FailedToLoad, FailedToSend} |-> 0]

\* ModelLoader::default() with an empty graphics library
LoaderInit ==
    /\ tex_list = << >>
    /\ texture_token_map = EmptyMap
    /\ texture_token_gen = 0
    /\ loading_texture_cnt = 0
    /\ cubemap_token_gen = 0
    /\ unprocessed_cubemap_textures = EmptyMap
    /\ thread_pool = << >>
    /\ channel = << >>
    /\ gl_textures = EmptyMap
    /\ gl_calls = << >>
    /\ issued = << >>
    /\ drained = {}
    /\ panicked = "none"
    /\ vao_list = << >>
    /\ vbo_list = << >>
    /\ gl_vertex_arrays = {}
    /\ gl_buffers = {}
    /\ gl_deleted = << >>
    /\ dropped = FALSE
    /\ worker_panics = NoWorkerPanics

\* ResourceManager::default(), without its loader
ManagerDefault ==
    [texture_pack |-> None,
     blend_texture |-> None,
     terrain_model |-> None,
     gui_model |-> None,
     skybox_model |-> None,
     water_model |-> None,
     particle_model |-> None,
     debug_model |-> None,
     player_model |-> None,
     quad_model |-> None,
     models |-> EmptyMap,
     gui_textures |-> EmptyMap,
     font_types |-> EmptyMap,
     particle_textures |-> EmptyMap]

\* no render call is in progress
NoScene ==
    [water_tiles |-> 0,
     entities |-> << >>,
     normal_mapped_entities |-> << >>,
     player |-> [entity |-> None, is_invisible_immovable |-> TRUE],
     framebuffers |-> EmptyMap,
     entities_with_env_map |-> << >>,
     skybox |-> None,
     terrains |-> << >>,
     lights |-> << >>]

FrameIdle ==
    /\ scene = NoScene
    /\ render_pc = "idle"
    /\ gl_log = << >>
    /\ pass_log = << >>

\* no shader, shadow box or light view has been created
NoStage ==
    /\ particle_renderer = None
    /\ scene_pc = None

NoShading ==
    /\ shader_program = None
    /\ shadow_box = None
    /\ world_to_lightspace = None
    /\ NoStage

RenderIdle ==
    /\ FrameIdle
    /\ NoShading

\* a loader whose files all decode, in a process that renders nothing
Init ==
    /\ LoaderInit
    /\ unreadable = {}
    /\ manager = ManagerDefault
    /\ RenderIdle

\* a panic on the main thread ends the process: nothing of the loader and of
\* its graphics context remains, only the message
Abort(message) ==
    /\ panicked' = message
    /\ tex_list' = << >>
    /\ texture_token_map' = EmptyMap
    /\ texture_token_gen' = 0
    /\ loading_texture_cnt' = 0
    /\ cubemap_token_gen' = 0
    /\ unprocessed_cubemap_textures' = EmptyMap
    /\ thread_pool' = << >>
    /\ channel' = << >>
    /\ gl_textures' = EmptyMap
    /\ gl_calls' = << >>
    /\ issued' = << >>
    /\ drained' = {}
    /\ vao_list' = << >>
    /\ vbo_list' = << >>
    /\ gl_vertex_arrays' = {}
    /\ gl_buffers' = {}
    /\ gl_deleted' = << >>
    /\ dropped' = FALSE
    /\ worker_panics' = NoWorkerPanics
    /\ unreadable' = {}
    /\ manager' = ManagerDefault
    /\ UNCHANGED render_vars

\* HashMap::insert
insert(map, key, value) ==
    [k \in DOMAIN map \cup {key} |-> IF k = key THEN value ELSE map[k]]

\* HashMap::remove
remove(map, key) == [k \in DOMAIN map \ {key} |-> map[k]]

\* gl::gen_texture: a texture name that is not in use
gen_texture(textures) == Cardinality(DOMAIN textures) + 1

\* standalone requests made so far
StandaloneRequests == texture_token_gen - CubemapFaces * cubemap_token_gen

(* ---------------------------------------------------------------------- *)
(* Requests                                                                *)
(* ---------------------------------------------------------------------- *)
\* the explored callers' rule for asking for n more decodes
CallerMayRequest(n) ==
    loading_texture_cnt = 0 \/ loading_texture_cnt + n <= MaxInFlight

\* the part of the loader load_texture_internal works on
Requesting ==
    [texture_token_gen |-> texture_token_gen,
     loading_texture_cnt |-> loading_texture_cnt,
     thread_pool |-> thread_pool,
     ret |-> Empty]

\* load_texture_internal returning the counter as it was before the increment
load_texture_internal_old_token(l, file_name, extra_info) ==
    LET texture_queue_id == l.texture_token_gen + 1
    IN  [texture_token_gen |-> texture_queue_id,
         loading_texture_cnt |-> l.loading_texture_cnt + 1,
         thread_pool |-> Append(l.thread_pool,
                                [file_name |-> file_name,
                                 texture_queue_id |-> texture_queue_id,
                                 extra_info |-> extra_info]),
         ret |-> Loading(l.texture_token_gen)]

\* load_texture_internal counting only standalone requests as in flight
load_texture_internal_faces_uncounted(l, file_name, extra_info) ==
    LET texture_queue_id == l.texture_token_gen + 1
    IN  [texture_token_gen |-> texture_queue_id,
         loading_texture_cnt |-> IF extra_info.is_cubemap
                                 THEN l.loading_texture_cnt
                                 ELSE l.loading_texture_cnt + 1,
         thread_pool |-> Append(l.thread_pool,
                                [file_name |-> file_name,
                                 texture_queue_id |-> texture_queue_id,
                                 extra_info |-> extra_info]),
         ret |-> Loading(texture_queue_id)]

load_texture_internal(l, file_name, extra_info) ==
    LET texture_queue_id == l.texture_token_gen + 1
    IN  [texture_token_gen |-> texture_queue_id,
         loading_texture_cnt |-> l.loading_texture_cnt + 1,
         thread_pool |-> Append(l.thread_pool,
                                [file_name |-> file_name,
                                 texture_queue_id |-> texture_queue_id,
                                 extra_info |-> extra_info]),
         ret |-> Loading(texture_queue_id)]

\* the state after a standalone request through one of the four wrappers
StandaloneRequest(file_name) ==
    /\ panicked = "none"
    /\ ~dropped
    /\ StandaloneRequests < MaxTextures
    /\ CallerMayRequest(1)
    /\ LET l == load_texture_internal(Requesting, file_name, ExtraInfoDefault)
       IN  /\ texture_token_gen' = l.texture_token_gen
           /\ loading_texture_cnt' = l.loading_texture_cnt
           /\ thread_pool' = l.thread_pool
           /\ issued' = Append(issued, [id |-> l.ret, is_cubemap |-> FALSE,
                                        name |-> file_name,
                                        jobs |-> {l.texture_token_gen}])
    /\ gl_calls' = << >>
    /\ UNCHANGED << tex_list, texture_token_map, cubemap_token_gen,
                    unprocessed_cubemap_textures, channel, gl_textures,
                    drained, panicked >>
    /\ UNCHANGED << life_vars, manager, render_vars >>

load_gui_texture == StandaloneRequest(texture_file(StandaloneRequests + 1))

load_texture == StandaloneRequest(texture_file(StandaloneRequests + 1))

load_particle_texture == StandaloneRequest(texture_file(StandaloneRequests + 1))

load_terrain_texture == StandaloneRequest(texture_file(StandaloneRequests + 1))

\* the loop `for i in 1..=6` of load_cube_map, from face i on
RECURSIVE load_cube_map_faces(_, _, _, _)
load_cube_map_faces(l, cube_map_folder, cubemap_token, i) ==
    IF i > CubemapFaces
    THEN l
    ELSE load_cube_map_faces(
             load_texture_internal(l, face_filename(cube_map_folder, i),
                                   [is_cubemap |-> TRUE, order |-> i,
                                    cubemap_token |-> cubemap_token]),
             cube_map_folder, cubemap_token, i + 1)

load_cube_map ==
    LET cube_map_folder == cube_map_folder_of(cubemap_token_gen + 1)
    IN  /\ panicked = "none"
        /\ ~dropped
        /\ cubemap_token_gen < MaxCubemaps
        /\ CallerMayRequest(CubemapFaces)
        /\ LET cubemap_token == cubemap_token_gen + 1
               l == load_cube_map_faces(Requesting, cube_map_folder,
                                        cubemap_token, 1)
           IN  /\ cubemap_token_gen' = cubemap_token
               /\ unprocessed_cubemap_textures' =
                      insert(unprocessed_cubemap_textures, cubemap_token, << >>)
               /\ texture_token_gen' = l.texture_token_gen
               /\ loading_texture_cnt' = l.loading_texture_cnt
               /\ thread_pool' = l.thread_pool
               /\ issued' = Append(issued,
                                   [id |-> Loading(cubemap_token),
                                    is_cubemap |-> TRUE,
                                    name |-> cube_map_folder,
                                    jobs |-> (texture_token_gen + 1) ..
                                             l.texture_token_gen])
            /\ gl_calls' = << >>
        /\ UNCHANGED << tex_list, texture_token_map, channel, gl_textures,
                        drained, panicked >>
        /\ UNCHANGED << life_vars, manager, render_vars >>

(* ---------------------------------------------------------------------- *)
(* Worker pool                                                             *)
(* ---------------------------------------------------------------------- *)
\* the jobs the pool is executing: the oldest MaxRunning unfinished ones
Running ==
    1 .. (IF Len(thread_pool) < MaxRunning THEN Len(thread_pool) ELSE MaxRunning)

RemoveAt(s, i) == SubSeq(s, 1, i - 1) \o SubSeq(s, i + 1, Len(s))

\* the outcome of the worker closure for a job: the result it sends, or the
\* expect() that panics in the pool thread. The closure decodes first and
\* sends afterwards; send fails when the receiver has been dropped.
closure(job) ==
    IF job.file_name \in unreadable
    THEN [sent |-> FALSE, message |-> FailedToLoad]
    ELSE IF dropped
    THEN [sent |-> FALSE, message |-> FailedToSend]
    ELSE [sent |-> TRUE,
          result |-> [texture |-> load_rgba_2d_texture(job.file_name),
                      texture_queue_id |-> job.texture_queue_id,
                      extra_info |-> job.extra_info]]

\* a pool thread runs the closure of job i to its end
Worker(i, outcome) ==
    /\ panicked = "none"
    /\ thread_pool' = RemoveAt(thread_pool, i)
    /\ IF outcome.sent
       THEN /\ channel' = Append(channel, outcome.result)
            /\ UNCHANGED worker_panics
       ELSE \* the panic ends the pool thread; the pool replaces it
            /\ worker_panics' =
                   [worker_panics EXCEPT ![outcome.message] = @ + 1]
            /\ UNCHANGED channel
    /\ gl_calls' = << >>
    /\ UNCHANGED << tex_list, texture_token_map, texture_token_gen,
                    loading_texture_cnt, cubemap_token_gen,
                    unprocessed_cubemap_textures, gl_textures,
                    issued, drained, panicked >>
    /\ UNCHANGED << vao_list, vbo_list, gl_vertex_arrays, gl_buffers,
                    gl_deleted, dropped, unreadable >>
    /\ UNCHANGED << manager, render_vars >>

\* the closure given to thread_pool.execute, with a file that decodes and a
\* receiver that lives
worker_send ==
    \E i \in Running :
        /\ closure(thread_pool[i]).sent
        /\ Worker(i, closure(thread_pool[i]))

\* the closure with a file that is missing or corrupt
worker_decode_fails ==
    \E i \in Running :
        /\ thread_pool[i].file_name \in unreadable
        /\ Worker(i, closure(thread_pool[i]))

\* the closure with a file that decodes, after the loader was dropped
worker_send_fails ==
    \E i \in Running :
        /\ thread_pool[i].file_name \notin unreadable
        /\ dropped
        /\ Worker(i, closure(thread_pool[i]))

(* ---------------------------------------------------------------------- *)
(* Drain                                                                   *)
(* ---------------------------------------------------------------------- *)
\* the upload loop taking the face target from the position in the buffer
cube_map_calls_by_position(textures_for_cubemap) ==
    [i \in 1 .. Len(textures_for_cubemap) |->
        [target |-> CUBEMAP_FACES[i],
         face |-> i,
         image |-> textures_for_cubemap[i].texture]]

\* the loop of load_cube_map_into_graphics_lib over the collected faces:
\* the tex_image_2d calls, in the order they are made
RECURSIVE cube_map_calls(_)
cube_map_calls(textures_for_cubemap) ==
    IF textures_for_cubemap = << >>
    THEN << >>
    ELSE LET tex_result == Head(textures_for_cubemap)
             face == tex_result.extra_info.order
         IN  << [target |-> CUBEMAP_FACES[face],
                 face |-> face,
                 image |-> tex_result.texture] >>
             \o cube_map_calls(Tail(textures_for_cubemap))

\* the content of a texture after a sequence of tex_image_2d calls on it
RECURSIVE tex_images(_, _)
tex_images(content, calls) ==
    IF calls = << >>
    THEN content
    ELSE tex_images(insert(content, Head(calls).target, Head(calls).image),
                    Tail(calls))

\* try_recv handing out the newest result
try_recv_newest(ch) ==
    IF ch = << >>
    THEN [status |-> "Empty"]
    ELSE [status |-> "Ok", value |-> ch[Len(ch)],
          rest |-> SubSeq(ch, 1, Len(ch) - 1)]

\* try_recv whose empty channel is taken for a disconnected one
try_recv_empty_is_disconnected(ch) ==
    IF ch = << >>
    THEN [status |-> "Disconnected"]
    ELSE [status |-> "Ok", value |-> Head(ch), rest |-> Tail(ch)]

\* Receiver::try_recv on the result channel: the oldest result if there is
\* one, Empty otherwise (Disconnected needs every sender dropped, and the
\* loader keeps loaded_texture_snd)
try_recv(ch) ==
    IF ch = << >>
    THEN [status |-> "Empty"]
    ELSE [status |-> "Ok", value |-> Head(ch), rest |-> Tail(ch)]

\* the completeness test off by one, upwards and downwards
cubemap_is_complete_after_seven(unprocessed_textures) ==
    Len(unprocessed_textures) > CubemapFaces

cubemap_is_complete_from_five(unprocessed_textures) ==
    Len(unprocessed_textures) >= CubemapFaces - 1

\* `unprocessed_textures.len() == 6`
cubemap_is_complete(unprocessed_textures) ==
    Len(unprocessed_textures) = CubemapFaces

update_resource_state ==
    /\ panicked = "none"
    /\ ~dropped
    /\ LET recv_res == try_recv(channel) IN
       IF recv_res.status = "Empty"
       THEN \* neither branch is taken
            UNCHANGED vars
       ELSE IF recv_res.status = "Disconnected"
       THEN Abort("The generation side of texture loading has disconnected")
       ELSE LET texture_result == recv_res.value
                cubemap_token == texture_result.extra_info.cubemap_token
            IN
            IF texture_result.extra_info.is_cubemap
            THEN IF cubemap_token \notin DOMAIN unprocessed_cubemap_textures
                 THEN Abort("Cubemap id must exist in the map")
                 ELSE LET unprocessed_textures ==
                              Append(unprocessed_cubemap_textures[cubemap_token],
                                     texture_result)
                      IN
                      IF /\ cubemap_is_complete(unprocessed_textures)
                         /\ Len(unprocessed_textures) # CubemapFaces
                      THEN \* the assert! of load_cube_map_into_graphics_lib
                           Abort("Must have 6 loaded textures for a cubemap")
                      ELSE
                      /\ channel' = recv_res.rest
                      /\ drained' = drained \cup {texture_result.texture_queue_id}
                      /\ loading_texture_cnt' = loading_texture_cnt - 1
                      /\ IF cubemap_is_complete(unprocessed_textures)
                         THEN \* load_cube_map_into_graphics_lib
                              LET cubemap_id == gen_texture(gl_textures)
                                  calls == cube_map_calls(unprocessed_textures)
                              IN  /\ tex_list' = Append(tex_list, cubemap_id)
                                  /\ gl_calls' = calls
                                  /\ gl_textures' =
                                         insert(gl_textures, cubemap_id,
                                                [target |-> "TEXTURE_CUBE_MAP",
                                                 images |-> tex_images(EmptyMap, calls)])
                                  /\ unprocessed_cubemap_textures' =
                                         remove(unprocessed_cubemap_textures,
                                                cubemap_token)
                                  /\ texture_token_map' =
                                         insert(texture_token_map,
                                                cubemap_token, cubemap_id)
                         ELSE /\ unprocessed_cubemap_textures' =
                                     insert(unprocessed_cubemap_textures,
                                            cubemap_token, unprocessed_textures)
                              /\ gl_calls' = << >>
                              /\ UNCHANGED << tex_list, texture_token_map,
                                              gl_textures >>
                      /\ UNCHANGED << texture_token_gen, cubemap_token_gen,
                                      thread_pool, issued, panicked >>
                      /\ UNCHANGED << life_vars, manager, render_vars >>
            ELSE \* load_texture_into_graphics_lib
                 LET tex_id == gen_texture(gl_textures)
                     calls == << [target |-> "TEXTURE_2D", face |-> 0,
                                  image |-> texture_result.texture] >>
                 IN  /\ channel' = recv_res.rest
                     /\ drained' = drained \cup {texture_result.texture_queue_id}
                     /\ tex_list' = Append(tex_list, tex_id)
                     /\ gl_calls' = calls
                     /\ gl_textures' =
                            insert(gl_textures, tex_id,
                                   [target |-> "TEXTURE_2D",
                                    images |-> tex_images(EmptyMap, calls)])
                     /\ texture_token_map' =
                            insert(texture_token_map,
                                   texture_result.texture_queue_id, tex_id)
                     /\ loading_texture_cnt' = loading_texture_cnt - 1
                     /\ UNCHANGED << texture_token_gen, cubemap_token_gen,
                                     unprocessed_cubemap_textures, thread_pool,
                                     issued, panicked >>
                     /\ UNCHANGED << life_vars, manager, render_vars >>

(* ---------------------------------------------------------------------- *)
(* Resolve                                                                 *)
(* ---------------------------------------------------------------------- *)
Returned(value) == [returned |-> TRUE, value |-> value]
Panic(message) == [returned |-> FALSE, message |-> message]

\* resolve falling back to handle 0 for a token without entry
resolve_internal_default_handle(map, texture_id) ==
    CASE texture_id.tag = "Loading" ->
             IF texture_id.id \in DOMAIN map
             THEN Returned(Loaded(map[texture_id.id]))
             ELSE Returned(Loaded(0))
      [] texture_id.tag = "Loaded" -> Returned(Loaded(texture_id.id))
      [] texture_id.tag = "Empty" ->
             Panic("Not permitted to resolve an empty texture")
      [] texture_id.tag = "FboTexture" ->
             Panic("Not permitted to resolve a texture attachment of a framebuffer object")

\* resolve passing a framebuffer attachment through as a loaded texture
resolve_internal_fbo_is_loaded(map, texture_id) ==
    CASE texture_id.tag = "Loading" ->
             IF texture_id.id \in DOMAIN map
             THEN Returned(Loaded(map[texture_id.id]))
             ELSE Panic("Requested a texture id that doesn't exist")
      [] texture_id.tag = "Loaded" -> Returned(Loaded(texture_id.id))
      [] texture_id.tag = "Empty" ->
             Panic("Not permitted to resolve an empty texture")
      [] texture_id.tag = "FboTexture" -> Returned(Loaded(texture_id.id))

resolve_internal(map, texture_id) ==
    CASE texture_id.tag = "Loading" ->
             IF texture_id.id \in DOMAIN map
             THEN Returned(Loaded(map[texture_id.id]))
             ELSE Panic("Requested a texture id that doesn't exist")
      [] texture_id.tag = "Loaded" -> Returned(Loaded(texture_id.id))
      [] texture_id.tag = "Empty" ->
             Panic("Not permitted to resolve an empty texture")
      [] texture_id.tag = "FboTexture" ->
             Panic("Not permitted to resolve a texture attachment of a framebuffer object")

\* the texture ids callers pass to resolve
ResolveInputs ==
    {Loading(1), Loading(2), Loaded(1), Empty, FboTexture(1)}

resolve ==
    \E texture_id \in ResolveInputs :
        LET outcome == resolve_internal(texture_token_map, texture_id)
        IN  /\ panicked = "none"
            /\ ~dropped
            /\ IF outcome.returned
               THEN UNCHANGED vars
               ELSE Abort(outcome.message)

(* ---------------------------------------------------------------------- *)
(* Models: vertex arrays and buffers                                       *)
(* ---------------------------------------------------------------------- *)
\* gl::gen_vertex_array, gl::gen_buffer: a name that is not in use
gen_vertex_array(arrays) == Cardinality(arrays) + 1
gen_buffer(buffers) == Cardinality(buffers) + 1

\* the part of the loader and of the graphics library the model functions
\* work on
Building ==
    [vao_list |-> vao_list,
     vbo_list |-> vbo_list,
     gl_vertex_arrays |-> gl_vertex_arrays,
     gl_buffers |-> gl_buffers,
     ret |-> 0]

RawModel(vao_id) == [vao_id |-> vao_id]

create_vao(l) ==
    LET vao_id == gen_vertex_array(l.gl_vertex_arrays)
    IN  [l EXCEPT !.gl_vertex_arrays = @ \cup {vao_id},
                  !.vao_list = Append(@, vao_id),
                  !.ret = vao_id]

store_data_in_attribute_list(l) ==
    LET vbo_id == gen_buffer(l.gl_buffers)
    IN  [l EXCEPT !.gl_buffers = @ \cup {vbo_id},
                  !.vbo_list = Append(@, vbo_id)]

\* bind_indices_buffer forgetting to record the buffer it generates
bind_indices_buffer_unrecorded(l) ==
    LET vbo_id == gen_buffer(l.gl_buffers)
    IN  [l EXCEPT !.gl_buffers = @ \cup {vbo_id}]

bind_indices_buffer(l) ==
    LET vbo_id == gen_buffer(l.gl_buffers)
    IN  [l EXCEPT !.gl_buffers = @ \cup {vbo_id},
                  !.vbo_list = Append(@, vbo_id)]

create_empty_float_vbo(l) ==
    LET vbo_id == gen_buffer(l.gl_buffers)
    IN  [l EXCEPT !.gl_buffers = @ \cup {vbo_id},
                  !.vbo_list = Append(@, vbo_id),
                  !.ret = vbo_id]

create_empty_float_vbo_for_attrib(l) ==
    LET vbo_id == gen_buffer(l.gl_buffers)
    IN  [l EXCEPT !.gl_buffers = @ \cup {vbo_id},
                  !.vbo_list = Append(@, vbo_id),
                  !.ret = vbo_id]

\* positions, texture coordinates, normals and tangents
load_to_vao_with_normal_map(l) ==
    LET vao == create_vao(l)
        filled == store_data_in_attribute_list(
                      store_data_in_attribute_list(
                          store_data_in_attribute_list(
                              store_data_in_attribute_list(
                                  bind_indices_buffer(vao)))))
    IN  [filled EXCEPT !.ret = RawModel(vao.ret)]

\* positions, texture coordinates and normals
load_to_vao(l) ==
    LET vao == create_vao(l)
        filled == store_data_in_attribute_list(
                      store_data_in_attribute_list(
                          store_data_in_attribute_list(
                              bind_indices_buffer(vao))))
    IN  [filled EXCEPT !.ret = RawModel(vao.ret)]

\* positions, texture coordinates, normals, joint indices and joint weights
load_animated_model_to_vao(l) ==
    LET vao == create_vao(l)
        filled == store_data_in_attribute_list(
                      store_data_in_attribute_list(
                          store_data_in_attribute_list(
                              store_data_in_attribute_list(
                                  store_data_in_attribute_list(
                                      bind_indices_buffer(vao))))))
    IN  [filled EXCEPT !.ret = RawModel(vao.ret)]

load_simple_model_to_vao(l) ==
    LET vao == create_vao(l)
        filled == store_data_in_attribute_list(vao)
    IN  [filled EXCEPT !.ret = RawModel(vao.ret)]

load_dynamic_model_with_indices_to_vao(l) ==
    LET vao == create_vao(l)
        filled == create_empty_float_vbo_for_attrib(bind_indices_buffer(vao))
    IN  [filled EXCEPT !.ret = [raw_model |-> RawModel(vao.ret),
                                stream_draw_vbo |-> filled.ret]]

load_quads_mesh_to_vao(l) ==
    LET vao == create_vao(l)
        filled == store_data_in_attribute_list(
                      store_data_in_attribute_list(vao))
    IN  [filled EXCEPT !.ret = RawModel(vao.ret)]

\* a call of one of the model functions on the loader: l is what the function
\* makes of Building
Build(l) ==
    /\ panicked = "none"
    /\ ~dropped
    /\ Len(l.vao_list) <= MaxModels
    /\ Len(l.vbo_list) <= MaxBuffers
    /\ vao_list' = l.vao_list
    /\ vbo_list' = l.vbo_list
    /\ gl_vertex_arrays' = l.gl_vertex_arrays
    /\ gl_buffers' = l.gl_buffers
    /\ gl_calls' = << >>
    /\ UNCHANGED << tex_list, texture_token_map, texture_token_gen,
                    loading_texture_cnt, cubemap_token_gen,
                    unprocessed_cubemap_textures, thread_pool, channel,
                    gl_textures, issued, drained, panicked >>
    /\ UNCHANGED << gl_deleted, dropped, worker_panics, unreadable >>
    /\ UNCHANGED << manager, render_vars >>

(* ---------------------------------------------------------------------- *)
(* Teardown                                                                *)
(* ---------------------------------------------------------------------- *)
Range(s) == {s[i] : i \in 1 .. Len(s)}

\* impl Drop for ModelLoader: the three delete calls, then the fields are
\* dropped, the receiver among them. The pool's threads are neither joined
\* nor told to stop: the jobs handed to the pool stay with it. What is left
\* of the fields is written as their empty values; issued and drained are
\* the record of the run and stay.
drop ==
    /\ panicked = "none"
    /\ ~dropped
    /\ gl_deleted' = << [call |-> "delete_vertex_arrays", names |-> vao_list],
                        [call |-> "delete_buffers", names |-> vbo_list],
                        [call |-> "delete_textures", names |-> tex_list] >>
    /\ gl_vertex_arrays' = gl_vertex_arrays \ Range(vao_list)
    /\ gl_buffers' = gl_buffers \ Range(vbo_list)
    /\ gl_textures' = [h \in DOMAIN gl_textures \ Range(tex_list) |->
                           gl_textures[h]]
    /\ dropped' = TRUE
    /\ vao_list' = << >>
    /\ vbo_list' = << >>
    /\ tex_list' = << >>
    /\ texture_token_map' = EmptyMap
    /\ texture_token_gen' = 0
    /\ loading_texture_cnt' = 0
    /\ cubemap_token_gen' = 0
    /\ unprocessed_cubemap_textures' = EmptyMap
    /\ channel' = << >>
    /\ gl_calls' = << >>
    /\ UNCHANGED << thread_pool, issued, drained, panicked, worker_panics,
                    unreadable >>
    /\ UNCHANGED << manager, render_vars >>

(* ---------------------------------------------------------------------- *)
(* Resource manager                                                        *)
(* ---------------------------------------------------------------------- *)
\* Models::FERN and Models::BARREL: a model without and one with a normal map
FERN ==
    [model_type |-> "Fern",
     obj_file |-> "res/models/fern.obj",
     texture_file |-> "res/textures/atlases/fern.png",
     model_props |-> [has_transparency |-> TRUE,
                      uses_fake_lighting |-> FALSE,
                      atlas_props |-> 2,
                      normal_map |-> None]]

BARREL ==
    [model_type |-> "Barrel",
     obj_file |-> "res/models/barrel.obj",
     texture_file |-> "res/textures/barrel.png",
     model_props |-> [has_transparency |-> FALSE,
                      uses_fake_lighting |-> FALSE,
                      atlas_props |-> 1,
                      normal_map |->
                          Some("res/textures/normal_maps/barrelNormal.png")]]

\* the models the explored callers ask for, and their ModelType
ModelsExplored == {FERN, BARREL}
ModelTypesExplored == {model.model_type : model \in ModelsExplored}

HEALTHBAR_TEXTURE == "res/textures/health.png"
GUI_BACKGROUND_TEXTURE == "res/textures/gui_background.png"
COPPER_SDF_FONT_TYPE == "res/fonts/copperDf"
PARTICLE_STAR == << "res/textures/particles/particleStar.png", 1 >>
PARTICLE_ATLAS == << "res/textures/particles/particleAtlas.png", 4 >>
SMOKE_ATLAS == << "res/textures/particles/smoke.png", 8 >>
FIRE_ATLAS == << "res/textures/particles/fire.png", 8 >>

\* the loader a ResourceManager owns: the fields its init_* functions reach
OwnedLoader ==
    [texture_token_gen |-> texture_token_gen,
     loading_texture_cnt |-> loading_texture_cnt,
     thread_pool |-> thread_pool,
     cubemap_token_gen |-> cubemap_token_gen,
     unprocessed_cubemap_textures |-> unprocessed_cubemap_textures,
     vao_list |-> vao_list,
     vbo_list |-> vbo_list,
     gl_vertex_arrays |-> gl_vertex_arrays,
     gl_buffers |-> gl_buffers,
     ret |-> Empty]

\* the ResourceManager: its loader, its own fields, and the panic a call on
\* it ended with
ResourceManager ==
    [loader |-> OwnedLoader, panic |-> "none"] @@ manager

\* load_texture, load_gui_texture, load_terrain_texture and
\* load_particle_texture on an owned loader: ret is the TextureId of the request
request_texture(l, file_name) ==
    LET q == load_texture_internal(l, file_name, ExtraInfoDefault)
    IN  [l EXCEPT !.texture_token_gen = q.texture_token_gen,
                  !.loading_texture_cnt = q.loading_texture_cnt,
                  !.thread_pool = q.thread_pool,
                  !.ret = q.ret]

\* load_cube_map on an owned loader
request_cube_map(l, cube_map_folder) ==
    LET cubemap_token == l.cubemap_token_gen + 1
        q == load_cube_map_faces(l, cube_map_folder, cubemap_token, 1)
    IN  [l EXCEPT !.cubemap_token_gen = cubemap_token,
                  !.unprocessed_cubemap_textures =
                      insert(@, cubemap_token, << >>),
                  !.texture_token_gen = q.texture_token_gen,
                  !.loading_texture_cnt = q.loading_texture_cnt,
                  !.thread_pool = q.thread_pool,
                  !.ret = Loading(cubemap_token)]

\* ModelTexture of load_texture with the properties init copies into it
ModelTexture(tex_id, model_props) ==
    [tex_id |-> tex_id,
     has_transparency |-> model_props.has_transparency,
     uses_fake_lighting |-> model_props.uses_fake_lighting,
     number_of_rows_in_atlas |-> model_props.atlas_props]

init(m, model) ==
    IF model.model_type \in DOMAIN m.models
    THEN m
    ELSE IF model.obj_file \in unreadable
    THEN [m EXCEPT !.panic =
              IF model.model_props.normal_map # None
              THEN "Unable to load " \o model.obj_file
              ELSE "Unable to load simple " \o model.obj_file]
    ELSE LET with_normal_map == model.model_props.normal_map # None
             l1 == IF with_normal_map
                   THEN request_texture(m.loader,
                                        model.model_props.normal_map.value)
                   ELSE m.loader
             normal_map == IF with_normal_map THEN Some(l1.ret) ELSE None
             l2 == IF with_normal_map
                   THEN load_to_vao_with_normal_map(l1)
                   ELSE load_to_vao(l1)
             raw_model == l2.ret
             l3 == request_texture(l2, model.texture_file)
             texture == ModelTexture(l3.ret, model.model_props)
         IN  [m EXCEPT !.loader = l3,
                       !.models = insert(@, model.model_type,
                                         [raw_model |-> raw_model,
                                          texture |-> texture,
                                          normal_map_tex_id |-> normal_map])]

model(m, model_type) ==
    IF model_type \in DOMAIN m.models
    THEN Returned(m.models[model_type])
    ELSE Panic("Need to call init_model(" \o model_type
               \o ") before accessing the model")

\* init_terrain_textures loading the blend map on every call
init_terrain_textures_blend_unguarded(m) ==
    LET l1 == request_texture(m.loader, "res/textures/terrain/grassy2.png")
        l2 == request_texture(l1, "res/textures/terrain/mud.png")
        l3 == request_texture(l2, "res/textures/terrain/grassFlowers.png")
        l4 == request_texture(l3, "res/textures/terrain/path.png")
        m1 == IF m.texture_pack = None
              THEN [m EXCEPT !.loader = l4,
                             !.texture_pack =
                                 Some([background_texture |-> [tex_id |-> l1.ret],
                                       r_texture |-> [tex_id |-> l2.ret],
                                       g_texture |-> [tex_id |-> l3.ret],
                                       b_texture |-> [tex_id |-> l4.ret]])]
              ELSE m
        l5 == request_texture(m1.loader, "res/textures/terrain/blendMap.png")
    IN  [m1 EXCEPT !.loader = l5,
                   !.blend_texture = Some([tex_id |-> l5.ret])]

init_terrain_textures(m) ==
    LET l1 == request_texture(m.loader, "res/textures/terrain/grassy2.png")
        l2 == request_texture(l1, "res/textures/terrain/mud.png")
        l3 == request_texture(l2, "res/textures/terrain/grassFlowers.png")
        l4 == request_texture(l3, "res/textures/terrain/path.png")
        m1 == IF m.texture_pack = None
              THEN [m EXCEPT !.loader = l4,
                             !.texture_pack =
                                 Some([background_texture |-> [tex_id |-> l1.ret],
                                       r_texture |-> [tex_id |-> l2.ret],
                                       g_texture |-> [tex_id |-> l3.ret],
                                       b_texture |-> [tex_id |-> l4.ret]])]
              ELSE m
        l5 == request_texture(m1.loader, "res/textures/terrain/blendMap.png")
    IN  IF m1.blend_texture = None
        THEN [m1 EXCEPT !.loader = l5,
                        !.blend_texture = Some([tex_id |-> l5.ret])]
        ELSE m1

\* Option::expect
expect(option, message) ==
    IF option = None THEN Panic(message) ELSE Returned(option.value)

terrain_pack(m) ==
    expect(m.texture_pack,
           "Need to call init_terrain_textures before accessing the textures")

blend_texture(m) ==
    expect(m.blend_texture,
           "Need to call init_terrain_textures before accessing the textures")

\* Terrain::generate_terrain: the terrain mesh, loaded into a vertex array
generate_terrain(l) == load_to_vao(l)

init_terrain_model(m) ==
    IF m.terrain_model = None
    THEN LET l == generate_terrain(m.loader)
         IN  [m EXCEPT !.loader = l,
                       !.terrain_model = Some([raw_model |-> l.ret])]
    ELSE m

terrain_model(m) ==
    expect(m.terrain_model,
           "Need to call init_terrain_model before accessing the model")

init_gui_textures(m) ==
    LET l1 == request_texture(m.loader, HEALTHBAR_TEXTURE)
        m1 == IF HEALTHBAR_TEXTURE \notin DOMAIN m.gui_textures
              THEN [m EXCEPT !.loader = l1,
                             !.gui_textures =
                                 insert(@, HEALTHBAR_TEXTURE, l1.ret)]
              ELSE m
        l2 == request_texture(m1.loader, GUI_BACKGROUND_TEXTURE)
    IN  IF GUI_BACKGROUND_TEXTURE \notin DOMAIN m1.gui_textures
        THEN [m1 EXCEPT !.loader = l2,
                        !.gui_textures =
                            insert(@, GUI_BACKGROUND_TEXTURE, l2.ret)]
        ELSE m1

\* HashMap::get(..).expect(..)
get_expect(map, key, message) ==
    IF key \in DOMAIN map THEN Returned(map[key]) ELSE Panic(message)

get_gui_texture(m, texture_name) ==
    get_expect(m.gui_textures, texture_name,
               "Must call init_gui_textures first")

init_gui_model(m) ==
    IF m.gui_model = None
    THEN LET l == load_simple_model_to_vao(m.loader)
         IN  [m EXCEPT !.loader = l,
                       !.gui_model = Some([raw_model |-> l.ret])]
    ELSE m

gui_model(m) ==
    expect(m.gui_model,
           "Need to call init_gui_model before accessing gui model")

skybox(m) ==
    expect(m.skybox_model, "Need to call init_skybox first")

\* init_skybox loading nothing
init_skybox_loading_nothing(m) == m

init_skybox(m) ==
    IF m.skybox_model = None
    THEN LET l1 == request_cube_map(m.loader,
                                    "res/textures/cube_maps/day_skybox")
             l2 == request_cube_map(l1, "res/textures/cube_maps/night_skybox")
             l3 == load_simple_model_to_vao(l2)
         IN  [m EXCEPT !.loader = l3,
                       !.skybox_model =
                           Some([raw_model |-> l3.ret,
                                 day_texture_id |-> l1.ret,
                                 night_texture_id |-> l2.ret])]
    ELSE m

init_water(m) ==
    IF m.water_model = None
    THEN LET l1 == load_simple_model_to_vao(m.loader)
             l2 == request_texture(l1, "res/textures/water/waterDUDV.png")
             l3 == request_texture(l2, "res/textures/water/normalMap.png")
         IN  [m EXCEPT !.loader = l3,
                       !.water_model =
                           Some([raw_model |-> l1.ret,
                                 dudv_tex_id |-> l2.ret,
                                 normal_map_tex_id |-> l3.ret])]
    ELSE m

water_model(m) ==
    expect(m.water_model, "Need to call init_water first")

\* FontType::new: the font of a .fnt file and its texture atlas
FontType(fnt_file_name, texture_id) ==
    [fnt_file_name |-> fnt_file_name, texture_atlas |-> texture_id]

init_fonts(m) ==
    IF COPPER_SDF_FONT_TYPE \notin DOMAIN m.font_types
    THEN LET fnt_file_name == COPPER_SDF_FONT_TYPE \o ".fnt"
             fnt_texture_atlas_name == COPPER_SDF_FONT_TYPE \o ".png"
             l == request_texture(m.loader, fnt_texture_atlas_name)
         IN  [m EXCEPT !.loader = l,
                       !.font_types =
                           insert(@, COPPER_SDF_FONT_TYPE,
                                  FontType(fnt_file_name, l.ret))]
    ELSE m

get_font(m, font_name) ==
    get_expect(m.font_types, font_name,
               "Must init fonts before accessing font types")

init_particle_model(m) ==
    IF m.particle_model = None
    THEN LET l1 == load_simple_model_to_vao(m.loader)
             l2 == create_empty_float_vbo(l1)
         IN  [m EXCEPT !.loader = l2,
                       !.particle_model =
                           Some([raw_model |-> l1.ret,
                                 stream_draw_vbo |-> l2.ret])]
    ELSE m

particle_model(m) ==
    expect(m.particle_model, "Must init_particle_model before accessing it")

\* the loop of init_particle_textures over texture_props, from index i on
RECURSIVE init_particle_textures_from(_, _, _)
init_particle_textures_from(m, texture_props, i) ==
    IF i > Len(texture_props)
    THEN m
    ELSE LET texture_prop == texture_props[i]
             l == request_texture(m.loader, texture_prop[1])
             m1 == IF texture_prop \notin DOMAIN m.particle_textures
                   THEN [m EXCEPT !.loader = l,
                                  !.particle_textures =
                                      insert(@, texture_prop,
                                             [tex_id |-> l.ret,
                                              number_of_rows_in_atlas |->
                                                  texture_prop[2]])]
                   ELSE m
         IN  init_particle_textures_from(m1, texture_props, i + 1)

init_particle_textures(m) ==
    init_particle_textures_from(
        m, << PARTICLE_ATLAS, FIRE_ATLAS, SMOKE_ATLAS >>, 1)

particle_texture(m, texture_prop) ==
    get_expect(m.particle_textures, texture_prop,
               "Must init_particle_textures before fetching")

init_debug_cuboid_model(m) ==
    IF m.debug_model = None
    THEN LET l == load_dynamic_model_with_indices_to_vao(m.loader)
         IN  [m EXCEPT !.loader = l, !.debug_model = Some(l.ret)]
    ELSE m

debug_cuboid_model(m) ==
    expect(m.debug_model,
           "Need to call init_debug_cuboid_model before accessing the model")

\* the resources a manager has initialized
Initialized(m) ==
    Cardinality({f \in {"texture_pack", "blend_texture", "terrain_model",
                        "gui_model", "skybox_model", "water_model",
                        "particle_model", "debug_model"} : m[f] # None})
    + Cardinality(DOMAIN m.models)
    + Cardinality(DOMAIN m.gui_textures)
    + Cardinality(DOMAIN m.font_types)
    + Cardinality(DOMAIN m.particle_textures)

\* a call of an init_* function: m is what the function makes of
\* ResourceManager
Call(m) ==
    /\ panicked = "none"
    /\ ~dropped
    /\ IF m.panic # "none"
       THEN Abort(m.panic)
       ELSE IF m = ResourceManager
       THEN UNCHANGED vars
       ELSE /\ Initialized(ResourceManager) < MaxInits
            /\ texture_token_gen' = m.loader.texture_token_gen
            /\ loading_texture_cnt' = m.loader.loading_texture_cnt
            /\ thread_pool' = m.loader.thread_pool
            /\ cubemap_token_gen' = m.loader.cubemap_token_gen
            /\ unprocessed_cubemap_textures' =
                   m.loader.unprocessed_cubemap_textures
            /\ vao_list' = m.loader.vao_list
            /\ vbo_list' = m.loader.vbo_list
            /\ gl_vertex_arrays' = m.loader.gl_vertex_arrays
            /\ gl_buffers' = m.loader.gl_buffers
            /\ manager' = [f \in DOMAIN manager |-> m[f]]
            /\ gl_calls' = << >>
            /\ UNCHANGED << tex_list, texture_token_map, channel, gl_textures,
                            issued, drained, panicked >>
            /\ UNCHANGED << gl_deleted, dropped, worker_panics, unreadable >>
            /\ UNCHANGED render_vars

\* a call of an accessor: outcome is what the accessor makes of
\* ResourceManager
Access(outcome) ==
    /\ panicked = "none"
    /\ ~dropped
    /\ IF outcome.returned
       THEN UNCHANGED vars
       ELSE Abort(outcome.message)

(* ---------------------------------------------------------------------- *)
(* Master renderer                                                         *)
(* ---------------------------------------------------------------------- *)
\* TexturedModel: has_transparency stands for the fields that PartialEq and
\* Hash leave out
TexturedModel(tex_id, vao_id, has_transparency) ==
    [raw_model |-> RawModel(vao_id),
     texture |-> [tex_id |-> Loaded(tex_id),
                  has_transparency |-> has_transparency]]

\* a key made of the texture alone
TexturedModelKey_texture_only(textured_model) ==
    << textured_model.texture.tex_id, 0 >>

\* impl Hash / PartialEq for TexturedModel: what a model is compared by
TexturedModelKey(textured_model) ==
    << textured_model.texture.tex_id, textured_model.raw_model.vao_id >>

\* Entity: position tells the entities of one list apart
Entity(textured_model, position) ==
    [model |-> textured_model, position |-> position]

\* the models of the explored scenes: two that are equal under the key and
\* differ outside it, and two that share one half of the key with them
EntityModels ==
    {TexturedModel(1, 1, FALSE), TexturedModel(1, 1, TRUE),
     TexturedModel(1, 2, FALSE), TexturedModel(2, 1, FALSE)}
NormalMappedModels == {TexturedModel(3, 3, FALSE)}
PlayerModel == TexturedModel(4, 4, FALSE)

\* Vec<Entity> of at most MaxEntities entities with models of the given set
EntityLists(models) ==
    UNION {{[i \in 1 .. n |-> Entity(f[i], i)] : f \in [1 .. n -> models]} :
           n \in 0 .. MaxEntities}

\* Player: a static entity with its own model or with the model of a listed
\* entity, or an animated entity
Players ==
    {[entity |-> [kind |-> kind, model |-> m, position |-> 0],
      is_invisible_immovable |-> b] :
         kind \in {"StaticModelEntity"},
         m \in {PlayerModel, TexturedModel(1, 1, FALSE)},
         b \in BOOLEAN}
    \cup {[entity |-> [kind |-> "AnimatedModelEntity", model |-> PlayerModel,
                       position |-> 0],
           is_invisible_immovable |-> b] : b \in BOOLEAN}

\* FramebufferObject: the depth texture is all a render call reads of it
FramebufferObject(depth_texture) == [depth_texture |-> depth_texture]

\* FboMap::new_rendering_fbos: the four framebuffers of a render call, the
\* shadow map and the refraction framebuffer with a depth texture
new_rendering_fbos ==
    [name \in {"ReflectionFBO", "RefractionFBO", "ShadowMapFBO",
               "CameraTextureMultisampled"} |->
        IF name = "ShadowMapFBO" THEN FramebufferObject(Some(FboTexture(7)))
        ELSE IF name = "RefractionFBO"
        THEN FramebufferObject(Some(FboTexture(8)))
        ELSE FramebufferObject(None)]

\* the maps a caller that fills its FboMap itself may leave incomplete: one
\* framebuffer not inserted, or a shadow framebuffer without depth texture
IncompleteFboMaps ==
    {[name \in DOMAIN new_rendering_fbos \ {missing} |->
         new_rendering_fbos[name]] : missing \in DOMAIN new_rendering_fbos}
    \cup {[new_rendering_fbos EXCEPT
              !["ShadowMapFBO"] = FramebufferObject(None)]}

\* Skybox: of its model, the cube map of the day is what a render call reads
Skybox(day_texture_id) == [model |-> [day_texture_id |-> day_texture_id]]

\* the skybox as the resource manager hands it out, and one whose cube map
\* the scene has resolved
Skyboxes ==
    {Skybox(skybox(init_skybox(ResourceManager)).value.day_texture_id),
     Skybox(Loaded(5))}

\* the models of the entities with an environment map: the model as the
\* resource manager hands it out, and one whose texture is resolved
EnvMapModels ==
    {model(init(ResourceManager, FERN), FERN.model_type).value,
     TexturedModel(6, 6, FALSE)}

\* the most terrains of a scene
MaxTerrains == 2

\* Terrain: the place on the grid tells the terrains of a scene apart
Terrain(x, z) == [x |-> x, z |-> z]

\* Vec<Terrain> of n terrains
Terrains(n) == [i \in 1 .. n |-> Terrain(i, 0)]

\* a scene lit by the sun alone
OneLight == << "sun" >>

Scene(water_tiles, entities, normal_mapped, player, fbos, env_mapped, sky, terrains, lights) ==
    [terrains |-> terrains,
     lights |-> lights,
     water_tiles |-> water_tiles,
     entities |-> entities,
     normal_mapped_entities |-> normal_mapped,
     player |-> player,
     framebuffers |-> fbos,
     entities_with_env_map |-> env_mapped,
     skybox |-> sky]

\* the arguments of a render call: every scene of the explored entities
\* with all its framebuffers, scenes with an incomplete framebuffer map,
\* scenes with entities that have an environment map, scenes with no, one
\* or more terrains, and scenes without a light
Scenes ==
    {Scene(water_tiles, entities, normal_mapped_entities, player,
           new_rendering_fbos, << >>, Skybox(Loaded(5)), Terrains(1),
           OneLight) :
        water_tiles \in 0 .. MaxWaterTiles,
        entities \in EntityLists(EntityModels),
        normal_mapped_entities \in EntityLists(NormalMappedModels),
        player \in Players}
    \cup {Scene(water_tiles, << Entity(TexturedModel(1, 1, FALSE), 1) >>,
                << >>, CHOOSE player \in Players :
                           /\ player.entity.model = PlayerModel
                           /\ player.entity.kind = "StaticModelEntity"
                           /\ ~player.is_invisible_immovable,
                framebuffers, << >>, Skybox(Loaded(5)), Terrains(1),
                OneLight) :
              water_tiles \in 0 .. MaxWaterTiles,
              framebuffers \in IncompleteFboMaps}
    \cup {Scene(0, << >>, << >>,
                CHOOSE player \in Players :
                    /\ player.entity.kind = "AnimatedModelEntity"
                    /\ player.is_invisible_immovable,
                new_rendering_fbos,
                [i \in 1 .. n |-> Entity(f[i], i)], sky, Terrains(1),
                OneLight) :
              n \in 1 .. 2, f \in [1 .. 2 -> EnvMapModels],
              sky \in Skyboxes}
    \cup {Scene(water_tiles, << Entity(TexturedModel(1, 1, FALSE), 1) >>,
                << Entity(TexturedModel(3, 3, FALSE), 1) >>, player,
                new_rendering_fbos, << >>, Skybox(Loaded(5)), Terrains(n),
                OneLight) :
              water_tiles \in 0 .. MaxWaterTiles, player \in Players,
              n \in 0 .. MaxTerrains}
    \cup {Scene(water_tiles, << Entity(TexturedModel(1, 1, FALSE), 1) >>,
                << >>, player, framebuffers, << >>, Skybox(Loaded(5)),
                Terrains(1), << >>) :
              water_tiles \in 0 .. MaxWaterTiles, player \in Players,
              framebuffers \in {new_rendering_fbos,
                                [new_rendering_fbos EXCEPT
                                    !["ShadowMapFBO"] =
                                        FramebufferObject(None)]}}

\* the loop of group_entities_by_tex from entity i on: entry(..).or_insert
\* keeps the key of the first entity of a group
RECURSIVE group_entities_from(_, _, _)
group_entities_from(groups_by_tex, entities, i) ==
    IF i > Len(entities)
    THEN groups_by_tex
    ELSE LET entity == entities[i]
             key == TexturedModelKey(entity.model)
             group == IF key \in DOMAIN groups_by_tex
                      THEN groups_by_tex[key]
                      ELSE [model |-> entity.model, entities |-> << >>]
         IN  group_entities_from(
                 insert(groups_by_tex, key,
                        [group EXCEPT !.entities = Append(@, entity)]),
                 entities, i + 1)

group_entities_by_tex(entities) == group_entities_from(EmptyMap, entities, 1)

\* the orders in which a HashMap may hand out its entries
IterationOrders(map) ==
    {order \in [1 .. Cardinality(DOMAIN map) -> DOMAIN map] :
         Range(order) = DOMAIN map}

\* a call received by a per-category renderer
RendererCall(renderer, call, textured_model, entity) ==
    [renderer |-> renderer, call |-> call, model |-> textured_model,
     entity |-> entity]

\* a call of MasterRenderer itself: gl, camera, framebuffers, and the entry
\* and exit of a stage
MasterCall(call, arg) == [call |-> call, arg |-> arg]
Stage(name) == << MasterCall("begin", name), MasterCall("end", name) >>

\* for (model, group) in groups { prepare; render each; unprepare }, the
\* groups taken in the given order, calls naming the three functions
RECURSIVE draw_groups(_, _, _, _)
draw_groups(renderer, calls, groups_by_tex, order) ==
    IF order = << >>
    THEN << >>
    ELSE LET group == groups_by_tex[Head(order)]
         IN  << RendererCall(renderer, calls.prepare, Some(group.model), None) >>
             \o [i \in 1 .. Len(group.entities) |->
                    RendererCall(renderer, calls.render, None,
                                 Some(group.entities[i]))]
             \o << RendererCall(renderer, calls.unprepare, calls.unprepare_arg[group.model], None) >>
             \o draw_groups(renderer, calls, groups_by_tex, Tail(order))

\* the functions of EntityRenderer and NormalMapEntityRenderer, and those of
\* ShadowMapRenderer, whose cleanup takes no model
EntityRendererCalls ==
    [prepare |-> "prepare_textured_model", render |-> "render",
     unprepare |-> "unprepare_textured_model",
     unprepare_arg |-> [m \in EntityModels \cup NormalMappedModels
                              \cup {PlayerModel} |-> Some(m)]]
ShadowMapRendererCalls ==
    [prepare |-> "prepare_textured_model", render |-> "render_entity",
     unprepare |-> "cleanup_textured_model",
     unprepare_arg |-> [m \in EntityModels \cup NormalMappedModels
                              \cup {PlayerModel} |-> None]]

\* prepare, draw, unprepare for the one entity of a static-model player
draw_player(renderer, calls, entity) ==
    << RendererCall(renderer, calls.prepare, Some(entity.model), None),
       RendererCall(renderer, calls.render, None, Some(entity)),
       RendererCall(renderer, calls.unprepare,
                    calls.unprepare_arg[entity.model], None) >>

\* ShadowMapRenderer::start_render: the renderer is entered and starts its
\* shader
start_render ==
    << RendererCall("shadowmap_renderer", "start_render", None, None),
       RendererCall("shadow_shader", "start", None, None) >>

\* ShadowMapRenderer::stop_render: the shader is stopped, and nothing else
stop_render ==
    << RendererCall("shadow_shader", "stop", None, None),
       RendererCall("shadowmap_renderer", "stop_render", None, None) >>

\* ShadowMapRenderer::render_terrain: one draw_elements for every terrain
render_terrain(terrains) ==
    << RendererCall("shadowmap_renderer", "render_terrain", None, None) >>
    \o [i \in 1 .. Len(terrains) |->
           RendererCall("shadowmap_renderer", "draw_elements", None,
                        Some(terrains[i]))]

\* the shadow pass stopping the renderer before the terrain is drawn
shadowmap_calls_stopping_before_terrain(s, order, norm_order) ==
    start_render
    \o draw_groups("shadowmap_renderer", ShadowMapRendererCalls,
                   group_entities_by_tex(s.entities), order)
    \o stop_render
    \o render_terrain(s.terrains)

\* the renderer calls of do_shadowmap_render_passes
shadowmap_calls(s, order, norm_order) ==
    start_render
    \o draw_groups("shadowmap_renderer", ShadowMapRendererCalls,
                   group_entities_by_tex(s.entities), order)
    \o draw_groups("shadowmap_renderer", ShadowMapRendererCalls,
                   group_entities_by_tex(s.normal_mapped_entities), norm_order)
    \o (IF s.player.entity.kind = "StaticModelEntity"
        THEN draw_player("shadowmap_renderer", ShadowMapRendererCalls,
                         s.player.entity)
        ELSE << >>)
    \o render_terrain(s.terrains)
    \o stop_render

\* for terrain in terrains { prepare_terrain; render; unprepare_terrain },
\* from terrain i on
RECURSIVE draw_terrains(_, _)
draw_terrains(terrains, i) ==
    IF i > Len(terrains)
    THEN << >>
    ELSE << RendererCall("terrain_renderer", "prepare_terrain", None,
                         Some(terrains[i])),
            RendererCall("terrain_renderer", "render", None,
                         Some(terrains[i])),
            RendererCall("terrain_renderer", "unprepare_terrain", None, None) >>
         \o draw_terrains(terrains, i + 1)

\* render_pass drawing the player although it is flagged invisible
render_pass_drawing_invisible_player(s, order, norm_order) ==
    draw_groups("entity_renderer", EntityRendererCalls,
                group_entities_by_tex(s.entities), order)
    \o (IF s.player.entity.kind = "StaticModelEntity"
        THEN draw_player("entity_renderer", EntityRendererCalls,
                         s.player.entity)
        ELSE << RendererCall("animated_entity_renderer", "render", None,
                             Some(s.player.entity)) >>)
    \o draw_groups("normal_map_entity_renderer", EntityRendererCalls,
                   group_entities_by_tex(s.normal_mapped_entities), norm_order)
    \o draw_terrains(s.terrains, 1)
    \o << RendererCall("skybox_renderer", "render", None, None) >>

\* the renderer calls of render_pass
render_pass(s, order, norm_order) ==
    draw_groups("entity_renderer", EntityRendererCalls,
                group_entities_by_tex(s.entities), order)
    \o (IF ~s.player.is_invisible_immovable
        THEN IF s.player.entity.kind = "StaticModelEntity"
             THEN draw_player("entity_renderer", EntityRendererCalls,
                              s.player.entity)
             ELSE << RendererCall("animated_entity_renderer", "render", None,
                                  Some(s.player.entity)) >>
        ELSE << >>)
    \o draw_groups("normal_map_entity_renderer", EntityRendererCalls,
                   group_entities_by_tex(s.normal_mapped_entities), norm_order)
    \o draw_terrains(s.terrains, 1)
    \o << RendererCall("skybox_renderer", "render", None, None) >>

\* a step of the render call: what MasterRenderer does itself, what the
\* renderers receive, and where the call goes on
RenderStep(master_calls, renderer_calls, next_pc) ==
    /\ gl_log' = gl_log \o master_calls
    /\ pass_log' = renderer_calls
    /\ render_pc' = next_pc
    /\ UNCHANGED << scene, shading_vars, loader_vars, life_vars, manager >>

\* MasterRenderer::render is called for the next frame of the scene
render ==
    /\ render_pc = "idle"
    /\ scene' = scene
    /\ gl_log' = << >>
    /\ pass_log' = << >>
    /\ render_pc' = "do_shadowmap_render_passes"
    /\ UNCHANGED << shading_vars, loader_vars, life_vars, manager >>

\* a step of the render call that ends in a panic: the process is over
RenderPanic(master_calls, renderer_calls, message) ==
    RenderStep(master_calls \o << MasterCall("panic", message) >>,
               renderer_calls, "panicked")

\* the shadow pass drawing into whatever is bound when it finds no shadow
\* framebuffer
do_shadowmap_render_passes_without_expect ==
    /\ render_pc = "do_shadowmap_render_passes"
    /\ \E order \in IterationOrders(group_entities_by_tex(scene.entities)),
          norm_order \in IterationOrders(
              group_entities_by_tex(scene.normal_mapped_entities)) :
           RenderStep(<< MasterCall("get_mut", "ShadowMapFBO") >>
                      \o (IF "ShadowMapFBO" \in DOMAIN scene.framebuffers
                          THEN << MasterCall("bind", "ShadowMapFBO") >>
                          ELSE << >>)
                      \o Stage("shadow"),
                      shadowmap_calls(scene, order, norm_order),
                      "do_water_render_passes")

\* the shadow pass going on without a sun when the light list is empty
do_shadowmap_render_passes_without_sun ==
    /\ render_pc = "do_shadowmap_render_passes"
    /\ "ShadowMapFBO" \in DOMAIN scene.framebuffers
    /\ scene.framebuffers["ShadowMapFBO"].depth_texture # None
    /\ \E order \in IterationOrders(group_entities_by_tex(scene.entities)),
          norm_order \in IterationOrders(
              group_entities_by_tex(scene.normal_mapped_entities)) :
           RenderStep(<< MasterCall("get_mut", "ShadowMapFBO"),
                         MasterCall("bind", "ShadowMapFBO") >>
                      \o Stage("shadow"),
                      shadowmap_calls(scene, order, norm_order),
                      "do_water_render_passes")

\* between the markers of the stage lie the calls of the shadow map renderer
do_shadowmap_render_passes ==
    /\ render_pc = "do_shadowmap_render_passes"
    /\ IF "ShadowMapFBO" \notin DOMAIN scene.framebuffers
       THEN RenderPanic(<< MasterCall("get_mut", "ShadowMapFBO") >>, << >>,
                        "Must have shadowmap fbo to render shadowmaps")
       ELSE IF Len(scene.lights) = 0
       THEN RenderPanic(<< MasterCall("get_mut", "ShadowMapFBO"),
                           MasterCall("bind", "ShadowMapFBO") >>, << >>,
                        "index out of bounds: the len is 0 but the index is 0")
       ELSE IF scene.framebuffers["ShadowMapFBO"].depth_texture = None
       THEN RenderPanic(<< MasterCall("get_mut", "ShadowMapFBO"),
                           MasterCall("bind", "ShadowMapFBO"),
                           Stage("shadow")[1] >>,
                        start_render,
                        "A shadowmup must have a depth texture or crash")
       ELSE \E order \in IterationOrders(
                             group_entities_by_tex(scene.entities)),
               norm_order \in IterationOrders(
                   group_entities_by_tex(scene.normal_mapped_entities)) :
                RenderStep(<< MasterCall("get_mut", "ShadowMapFBO"),
                              MasterCall("bind", "ShadowMapFBO") >>
                           \o Stage("shadow"),
                           shadowmap_calls(scene, order, norm_order),
                           "do_water_render_passes")

\* do_water_render_passes toggling the clip distance before it looks at the
\* water tiles
do_water_render_passes_toggling_first ==
    /\ render_pc = "do_water_render_passes"
    /\ scene.water_tiles = 0
    /\ RenderStep(<< MasterCall("enable", "CLIP_DISTANCE0"),
                     MasterCall("disable", "CLIP_DISTANCE0") >>,
                  << >>, "render_pass")

\* do_water_render_passes without water tiles: the early return
do_water_render_passes_empty ==
    /\ render_pc = "do_water_render_passes"
    /\ scene.water_tiles = 0
    /\ RenderStep(<< >>, << >>, "render_pass")

\* do_water_render_passes with water tiles, up to the end of the reflection
\* render_pass
reflection_pass ==
    /\ render_pc = "do_water_render_passes"
    /\ scene.water_tiles > 0
    /\ IF "ReflectionFBO" \notin DOMAIN scene.framebuffers
       THEN RenderPanic(
                << MasterCall("enable", "CLIP_DISTANCE0"),
                   MasterCall("set_to_reflected_ray_camera_origin", ""),
                   MasterCall("get_mut", "ReflectionFBO") >>, << >>,
                "Must have reflection fbo for water render")
       ELSE \E order \in IterationOrders(
                             group_entities_by_tex(scene.entities)),
               norm_order \in IterationOrders(
                   group_entities_by_tex(scene.normal_mapped_entities)) :
                RenderStep(
                    << MasterCall("enable", "CLIP_DISTANCE0"),
                       MasterCall("set_to_reflected_ray_camera_origin", ""),
                       MasterCall("get_mut", "ReflectionFBO"),
                       MasterCall("bind", "ReflectionFBO") >>
                    \o Stage("reflection"),
                    render_pass(scene, order, norm_order),
                    "refraction")

\* do_water_render_passes from there to its end
\* the refraction pass with the clip distance disabled before it draws
refraction_pass_disabling_early ==
    /\ render_pc = "refraction"
    /\ \E order \in IterationOrders(group_entities_by_tex(scene.entities)),
          norm_order \in IterationOrders(
              group_entities_by_tex(scene.normal_mapped_entities)) :
           RenderStep(
               << MasterCall("set_to_reflected_ray_camera_origin", ""),
                  MasterCall("get_mut", "RefractionFBO"),
                  MasterCall("bind", "RefractionFBO"),
                  MasterCall("disable", "CLIP_DISTANCE0") >>
               \o Stage("refraction"),
               render_pass(scene, order, norm_order),
               "render_pass")

\* the refraction pass that leaves the camera where the reflection pass
\* put it
refraction_pass_camera_left_reflected ==
    /\ render_pc = "refraction"
    /\ \E order \in IterationOrders(group_entities_by_tex(scene.entities)),
          norm_order \in IterationOrders(
              group_entities_by_tex(scene.normal_mapped_entities)) :
           RenderStep(
               << MasterCall("get_mut", "RefractionFBO"),
                  MasterCall("bind", "RefractionFBO") >>
               \o Stage("refraction")
               \o << MasterCall("disable", "CLIP_DISTANCE0") >>,
               render_pass(scene, order, norm_order),
               "render_pass")

refraction_pass ==
    /\ render_pc = "refraction"
    /\ IF "RefractionFBO" \notin DOMAIN scene.framebuffers
       THEN RenderPanic(
                << MasterCall("set_to_reflected_ray_camera_origin", ""),
                   MasterCall("get_mut", "RefractionFBO") >>, << >>,
                "Must have refraction fbo for water render")
       ELSE \E order \in IterationOrders(
                             group_entities_by_tex(scene.entities)),
               norm_order \in IterationOrders(
                   group_entities_by_tex(scene.normal_mapped_entities)) :
                RenderStep(
                    << MasterCall("set_to_reflected_ray_camera_origin", ""),
                       MasterCall("get_mut", "RefractionFBO"),
                       MasterCall("bind", "RefractionFBO") >>
                    \o Stage("refraction")
                    \o << MasterCall("disable", "CLIP_DISTANCE0") >>,
                    render_pass(scene, order, norm_order),
                    "render_pass")

\* the camera framebuffer is bound and render_pass runs for the main camera
main_pass ==
    /\ render_pc = "render_pass"
    /\ IF "CameraTextureMultisampled" \notin DOMAIN scene.framebuffers
       THEN RenderPanic(
                << MasterCall("get_mut", "CameraTextureMultisampled") >>,
                << >>,
                "Must have a camera output fbo to which to render the scene for post processing")
       ELSE \E order \in IterationOrders(
                             group_entities_by_tex(scene.entities)),
               norm_order \in IterationOrders(
                   group_entities_by_tex(scene.normal_mapped_entities)) :
                RenderStep(
                    << MasterCall("get_mut", "CameraTextureMultisampled"),
                       MasterCall("bind", "CameraTextureMultisampled") >>
                    \o Stage("main"),
                    render_pass(scene, order, norm_order),
                    "water_renderer.render")

water_renderer_render ==
    /\ render_pc = "water_renderer.render"
    /\ RenderStep(Stage("water"), << >>, "env_map_renderer.render")

\* TextureId::unwrap: the handle of a texture that is on the graphics card;
\* of a texture still loading, or of none, there is no handle to give
unwrap(texture_id) ==
    IF texture_id.tag \in {"Loaded", "FboTexture"}
    THEN Returned(texture_id.id)
    ELSE Panic("unwrap of a texture id that is not loaded")

\* gl::bind_texture, with the TextureId whose handle is bound
bind_texture(target, texture_id) ==
    RendererCall("gl", "bind_texture " \o target, Some(texture_id), None)

\* prepare_textured_model binding whatever number the id carries
prepare_textured_model_binding_unresolved(textured_model, env_map_id) ==
    [calls |-> << RendererCall("env_map_renderer", "prepare_textured_model",
                               Some(textured_model), None),
                  bind_texture("TEXTURE_2D", textured_model.texture.tex_id),
                  bind_texture("TEXTURE_CUBE_MAP", env_map_id) >>,
     panicked |-> FALSE]

\* EnvMapRenderer::prepare_textured_model: the calls it makes, and whether
\* one of its unwraps ended it
prepare_textured_model(textured_model, env_map_id) ==
    LET prepare == RendererCall("env_map_renderer", "prepare_textured_model",
                                Some(textured_model), None)
    IN  IF ~unwrap(textured_model.texture.tex_id).returned
        THEN [calls |-> << prepare >>, panicked |-> TRUE]
        ELSE IF ~unwrap(env_map_id).returned
        THEN [calls |-> << prepare,
                           bind_texture("TEXTURE_2D",
                                        textured_model.texture.tex_id) >>,
              panicked |-> TRUE]
        ELSE [calls |-> << prepare,
                           bind_texture("TEXTURE_2D",
                                        textured_model.texture.tex_id),
                           bind_texture("TEXTURE_CUBE_MAP",
                                        env_map_id) >>,
              panicked |-> FALSE]

\* EnvMapRenderer::render from entity i on
RECURSIVE env_map_render_from(_, _, _)
env_map_render_from(entities, env_map_texture_id, i) ==
    IF i > Len(entities)
    THEN [calls |-> << >>, panicked |-> FALSE]
    ELSE LET prepared == prepare_textured_model(entities[i].model,
                                                env_map_texture_id)
             rest == env_map_render_from(entities, env_map_texture_id, i + 1)
         IN  IF prepared.panicked
             THEN prepared
             ELSE [calls |-> prepared.calls
                             \o << RendererCall("env_map_renderer",
                                                "render_entity", None,
                                                Some(entities[i])) >>
                             \o rest.calls,
                   panicked |-> rest.panicked]

env_map_renderer_render ==
    /\ render_pc = "env_map_renderer.render"
    /\ LET rendered == env_map_render_from(scene.entities_with_env_map,
                                           scene.skybox.model.day_texture_id,
                                           1)
       IN  IF rendered.panicked
           THEN RenderPanic(<< Stage("env_map")[1] >>, rendered.calls,
                            "unwrap of a texture id that is not loaded")
           ELSE RenderStep(Stage("env_map"), rendered.calls,
                           "particle_master.render")

particle_master_render ==
    /\ render_pc = "particle_master.render"
    /\ RenderStep(Stage("particles"), << >>, "restore_default_framebuffer")

\* restore_default_framebuffer taking the place of the particles
restore_default_framebuffer_before_particles ==
    /\ render_pc \in {"particle_master.render", "restore_default_framebuffer"}
    /\ RenderStep(<< Stage("restore")[1],
                     MasterCall("restore_default_framebuffer", ""),
                     Stage("restore")[2] >>, << >>, "idle")

\* render returning without the call that restores the default framebuffer
render_returns_without_restoring ==
    /\ render_pc = "restore_default_framebuffer"
    /\ RenderStep(Stage("restore"), << >>, "idle")

\* display.restore_default_framebuffer(), the last call of render
restore_default_framebuffer ==
    /\ render_pc = "restore_default_framebuffer"
    /\ RenderStep(<< Stage("restore")[1],
                     MasterCall("restore_default_framebuffer", ""),
                     Stage("restore")[2] >>, << >>, "idle")

(* ---------------------------------------------------------------------- *)
(* Specification                                                           *)
(* ---------------------------------------------------------------------- *)
Next ==
    \/ load_texture
    \/ load_gui_texture
    \/ load_terrain_texture
    \/ load_particle_texture
    \/ load_cube_map
    \/ worker_send
    \/ update_resource_state
    \/ resolve

Spec == Init /\ [][Next]_vars

\* the files a run may find missing or corrupt
UnreadableChoices ==
    { {},
      {texture_file(1)},
      {face_filename(cube_map_folder_of(1), 3)} }

LifeInit ==
    /\ LoaderInit
    /\ unreadable \in UnreadableChoices
    /\ manager = ManagerDefault
    /\ RenderIdle

\* the loader from construction to teardown, with files that do not decode
\* and with workers that outlive the loader
LifeNext ==
    \/ (Len(issued) < MaxLoads /\ load_texture)
    \/ (Len(issued) < MaxLoads /\ load_cube_map)
    \/ worker_send
    \/ worker_decode_fails
    \/ worker_send_fails
    \/ update_resource_state
    \/ drop

LifeSpec == LifeInit /\ [][LifeNext]_vars

\* the pool runs every job handed to it and the main thread calls the drain
\* every frame
FairLifeSpec ==
    /\ LifeSpec
    /\ WF_vars(worker_send \/ worker_decode_fails \/ worker_send_fails)
    /\ WF_vars(update_resource_state)

\* the pool finishes the oldest job
OldestFirst == thread_pool' = Tail(thread_pool)

\* the loader from construction to teardown with every function that creates
\* a handle; the files decode and the explored pool finishes its jobs in the
\* order it got them (the handle lists do not depend on the schedule)
HandleNext ==
    \/ (Len(issued) < MaxLoads /\ load_texture)
    \/ (Len(issued) < MaxLoads /\ load_cube_map)
    \/ (worker_send /\ OldestFirst)
    \/ (worker_send_fails /\ OldestFirst)
    \/ update_resource_state
    \/ Build(load_to_vao_with_normal_map(Building))
    \/ Build(load_to_vao(Building))
    \/ Build(load_animated_model_to_vao(Building))
    \/ Build(load_simple_model_to_vao(Building))
    \/ Build(load_dynamic_model_with_indices_to_vao(Building))
    \/ Build(load_quads_mesh_to_vao(Building))
    \/ Build(create_empty_float_vbo(Building))
    \/ Build(create_empty_float_vbo_for_attrib(Building))
    \/ drop

HandleSpec == Init /\ [][HandleNext]_vars

\* the keys the explored callers pass to the keyed accessors
GuiTextureNames == {HEALTHBAR_TEXTURE, GUI_BACKGROUND_TEXTURE}
FontNames == {COPPER_SDF_FONT_TYPE}
ParticleTextureProps == {PARTICLE_STAR, PARTICLE_ATLAS, SMOKE_ATLAS, FIRE_ATLAS}

\* the obj files a run may find missing
ManagerInit ==
    /\ LoaderInit
    /\ unreadable \in { {}, {FERN.obj_file} }
    /\ manager = ManagerDefault
    /\ RenderIdle

\* a ResourceManager and the calls of its init_* functions and accessors
ManagerNext ==
    \/ \E m \in ModelsExplored : Call(init(ResourceManager, m))
    \/ Call(init_terrain_textures(ResourceManager))
    \/ Call(init_terrain_model(ResourceManager))
    \/ Call(init_gui_textures(ResourceManager))
    \/ Call(init_gui_model(ResourceManager))
    \/ Call(init_skybox(ResourceManager))
    \/ Call(init_water(ResourceManager))
    \/ Call(init_fonts(ResourceManager))
    \/ Call(init_particle_model(ResourceManager))
    \/ Call(init_particle_textures(ResourceManager))
    \/ Call(init_debug_cuboid_model(ResourceManager))
    \/ \E t \in ModelTypesExplored : Access(model(ResourceManager, t))
    \/ Access(terrain_pack(ResourceManager))
    \/ Access(blend_texture(ResourceManager))
    \/ Access(terrain_model(ResourceManager))
    \/ \E n \in GuiTextureNames : Access(get_gui_texture(ResourceManager, n))
    \/ Access(gui_model(ResourceManager))
    \/ Access(skybox(ResourceManager))
    \/ Access(water_model(ResourceManager))
    \/ \E n \in FontNames : Access(get_font(ResourceManager, n))
    \/ Access(particle_model(ResourceManager))
    \/ \E t \in ParticleTextureProps :
           Access(particle_texture(ResourceManager, t))
    \/ Access(debug_cuboid_model(ResourceManager))

ManagerSpec == ManagerInit /\ [][ManagerNext]_vars

\* a scene to render, nothing rendered yet
RenderInit ==
    /\ LoaderInit
    /\ unreadable = {}
    /\ manager = ManagerDefault
    /\ scene \in Scenes
    /\ render_pc = "idle"
    /\ gl_log = << >>
    /\ pass_log = << >>
    /\ NoShading

\* MasterRenderer::render, called frame after frame
RenderNext ==
    \/ render
    \/ do_shadowmap_render_passes
    \/ do_water_render_passes_empty
    \/ reflection_pass
    \/ refraction_pass
    \/ main_pass
    \/ water_renderer_render
    \/ env_map_renderer_render
    \/ particle_master_render
    \/ restore_default_framebuffer

RenderSpec == RenderInit /\ [][RenderNext]_vars

(* ---------------------------------------------------------------------- *)
(* Properties                                                              *)
(* ---------------------------------------------------------------------- *)
Running_ok == panicked = "none"

\* the tokens handed to callers, in request order
IssuedTokens == [i \in 1 .. Len(issued) |-> issued[i].id.id]

\* decode jobs enqueued so far
RECURSIVE EnqueuedUpTo(_)
EnqueuedUpTo(n) ==
    IF n = 0 THEN 0 ELSE EnqueuedUpTo(n - 1) + Cardinality(issued[n].jobs)

Enqueued == EnqueuedUpTo(Len(issued))

\* a step of the drain that received a result
Received == Running_ok /\ panicked' = "none" /\ drained' # drained

CubeTextures == {h \in DOMAIN gl_textures : gl_textures[h].target = "TEXTURE_CUBE_MAP"}

\* the decoded images of the six files of a cubemap folder
FaceImages(folder) ==
    {load_rgba_2d_texture(face_filename(folder, k)) : k \in 1 .. CubemapFaces}

\* C1: whenever the in-flight counter is 0, resolve succeeds with a Loaded
\* handle for every token a load request has returned to a caller.
C1_ResolveSucceedsWhenIdle ==
    (Running_ok /\ loading_texture_cnt = 0) =>
        \A i \in 1 .. Len(issued) :
            LET outcome == resolve_internal(texture_token_map, issued[i].id)
            IN  outcome.returned /\ outcome.value.tag = "Loaded"

\* a standalone and a cubemap request were made, in flight together, and all
\* their decodes are drained
C1_Witness ==
    /\ Running_ok
    /\ loading_texture_cnt = 0
    /\ \E i, j \in 1 .. Len(issued) :
           /\ issued[i].is_cubemap
           /\ ~issued[j].is_cubemap
           /\ i < j
           /\ resolve_internal(texture_token_map, issued[i].id).returned

\* C2 (as claimed): the tokens handed out are pairwise different and strictly
\* increase in request order.
C2_TokensUniqueAndIncreasing ==
    \A i, j \in 1 .. Len(issued) :
        i < j => IssuedTokens[i] < IssuedTokens[j]

\* C3: when only standalone textures were requested, all their decodes are
\* complete and all results drained, the token map has exactly one entry per
\* request, and each token maps to the texture made from its own file.
C3_StandaloneRoundTrip ==
    ( /\ Running_ok
      /\ cubemap_token_gen = 0
      /\ thread_pool = << >>
      /\ channel = << >> ) =>
        /\ DOMAIN texture_token_map = {IssuedTokens[i] : i \in 1 .. Len(issued)}
        /\ Cardinality(DOMAIN texture_token_map) = Len(issued)
        /\ \A i \in 1 .. Len(issued) :
               LET handle == texture_token_map[IssuedTokens[i]]
               IN  /\ handle \in DOMAIN gl_textures
                   /\ gl_textures[handle].target = "TEXTURE_2D"
                   /\ gl_textures[handle].images =
                          [t \in {"TEXTURE_2D"} |->
                               load_rgba_2d_texture(issued[i].name)]
        /\ \A i, j \in 1 .. Len(issued) :
               i # j => texture_token_map[IssuedTokens[i]]
                            # texture_token_map[IssuedTokens[j]]

\* two standalone requests, drained in the opposite order of the requests
C3_Witness ==
    /\ Running_ok
    /\ cubemap_token_gen = 0
    /\ thread_pool = << >>
    /\ channel = << >>
    /\ Len(issued) = 2
    /\ 1 \in DOMAIN texture_token_map
    /\ texture_token_map[1] = 2

\* C4: draining a cubemap face uploads the cubemap exactly when the face is
\* the sixth of its token to be drained; the upload uses the six files asked
\* for that token and records one token -> handle entry; draining one of the
\* first five faces uploads nothing and records nothing; the drain of a face
\* never aborts.
C4_FaceStep ==
    (Received /\ Head(channel).extra_info.is_cubemap) =>
        LET face_result == Head(channel)
            token == face_result.extra_info.cubemap_token
            request == CHOOSE r \in {issued[i] : i \in 1 .. Len(issued)} :
                           r.is_cubemap /\ r.id = Loading(token)
            sixth == request.jobs \ drained = {face_result.texture_queue_id}
            created == DOMAIN gl_textures' \ DOMAIN gl_textures
        IN  IF sixth
            THEN /\ Cardinality(created) = 1
                 /\ \A h \in created :
                        /\ gl_textures'[h].target = "TEXTURE_CUBE_MAP"
                        /\ texture_token_map' =
                               insert(texture_token_map, token, h)
                 /\ Len(gl_calls') = CubemapFaces
                 /\ {gl_calls'[i].image : i \in 1 .. Len(gl_calls')} =
                        FaceImages(request.name)
            ELSE /\ created = {}
                 /\ gl_calls' = << >>
                 /\ texture_token_map' = texture_token_map

CubemapUpload ==
    /\ Received
    /\ Head(channel).extra_info.is_cubemap
    /\ Len(gl_calls') = CubemapFaces

\* the faces collected for the cubemap a step uploads, in arrival order
Arrived ==
    Append(unprocessed_cubemap_textures[Head(channel).extra_info.cubemap_token],
           Head(channel))

C6_InFlightCounter ==
    Running_ok =>
        /\ loading_texture_cnt = Enqueued - Cardinality(drained)
        /\ loading_texture_cnt >= 0
        /\ \A i \in 1 .. Len(issued) :
               Cardinality(issued[i].jobs) =
                   IF issued[i].is_cubemap THEN CubemapFaces ELSE 1

\* cubemap faces and a standalone result were drained, others are in flight
C6_Witness ==
    /\ Running_ok
    /\ loading_texture_cnt > 0
    /\ Cardinality(drained) >= 3
    /\ unprocessed_cubemap_textures # EmptyMap
    /\ \E i \in 1 .. Len(issued) :
           ~issued[i].is_cubemap /\ issued[i].jobs \subseteq drained

\* C7 (as claimed): a drain that receives a result leaves no result that was
\* in the channel before it.
C7_DrainEmptiesChannel ==
    [][Received => channel' = << >>]_vars

\* C7 (amended): a drain receives at most one result, the oldest in the
\* channel; the results behind it stay in the channel for later drains.
C7_DrainTakesOldestOnly ==
    [][Received =>
          /\ channel # << >>
          /\ channel' = Tail(channel)
          /\ drained' = drained \cup {Head(channel).texture_queue_id}
          /\ loading_texture_cnt' = loading_texture_cnt - 1
      ]_vars

\* a drain has just uploaded a texture and a result is still waiting
C7_Witness ==
    /\ Running_ok
    /\ gl_calls # << >>
    /\ channel # << >>

\* C8: with no result available the receive of the drain returns at once
\* with Empty, and the drain then changes nothing of the loader.
C8_EmptyDrainChangesNothing ==
    /\ []((Running_ok /\ channel = << >>) => try_recv(channel).status = "Empty")
    /\ [][(channel = << >> /\ Running_ok /\ update_resource_state) =>
             /\ UNCHANGED loader_state
             /\ UNCHANGED << thread_pool, channel, panicked >>
         ]_vars

\* decodes are running and no result is available
C8_Witness ==
    /\ Running_ok
    /\ channel = << >>
    /\ Len(thread_pool) >= 2
    /\ loading_texture_cnt >= 2
    /\ texture_token_map # EmptyMap

\* the tokens and handles resolve is asked about
ResolveTokens == 0 .. 4
ResolveHandles == 0 .. 4

\* C9: resolve of Loading(t) returns Loaded(h) exactly when the token map
\* holds t -> h and fails when t has no entry; resolve of Loaded(h) returns
\* Loaded(h).
C9_ResolveLooksUpTheMap ==
    /\ \A t \in ResolveTokens :
           LET outcome == resolve_internal(texture_token_map, Loading(t))
           IN  IF t \in DOMAIN texture_token_map
               THEN outcome = Returned(Loaded(texture_token_map[t]))
               ELSE ~outcome.returned
    /\ \A h \in ResolveHandles :
           resolve_internal(texture_token_map, Loaded(h)) = Returned(Loaded(h))

\* one issued token is in the map, another is issued and not yet drained
C9_Witness ==
    /\ Running_ok
    /\ \E i, j \in 1 .. Len(issued) :
           /\ IssuedTokens[i] \in DOMAIN texture_token_map
           /\ IssuedTokens[i] \in ResolveTokens
           /\ IssuedTokens[j] \notin DOMAIN texture_token_map
           /\ IssuedTokens[j] \in ResolveTokens

\* C10: resolve of Empty and of FboTexture(h) fails in every loader state.
C10_ResolveRejectsEmptyAndFbo ==
    /\ ~resolve_internal(texture_token_map, Empty).returned
    /\ \A h \in ResolveHandles :
           ~resolve_internal(texture_token_map, FboTexture(h)).returned

\* a resolve of a framebuffer attachment has aborted the process
C10_Witness ==
    panicked = "Not permitted to resolve a texture attachment of a framebuffer object"

\* a pool thread ends the closure of a job whose file does not decode
DecodeFails ==
    /\ Running_ok
    /\ panicked' = "none"
    /\ \E i \in Running :
           /\ thread_pool[i].file_name \in unreadable
           /\ thread_pool' = RemoveAt(thread_pool, i)

\* C11 (as claimed): with a pool that runs its jobs and a main thread that
\* keeps draining, whenever decodes are in flight the in-flight counter
\* eventually returns to 0, or the process aborts (or the loader is dropped).
C11_EveryDecodeIsEventuallyDrained ==
    [](loading_texture_cnt > 0 =>
           <>(loading_texture_cnt = 0 \/ panicked # "none" \/ dropped))

\* C12 (as claimed): a worker whose decode fails does not panic in the pool;
\* it puts the error into the result channel.
C12_DecodeFailureIsSentToMainThread ==
    [][DecodeFails =>
          /\ worker_panics' = worker_panics
          /\ Len(channel') = Len(channel) + 1
      ]_vars

\* C13 (as claimed): no worker fails on its send because the receiver is
\* gone, whenever the loader is torn down.
C13_NoWorkerFailsAfterTeardown ==
    worker_panics[FailedToSend] = 0

\* the loader is dropped by this step
Teardown == Running_ok /\ ~dropped /\ dropped'

\* a sequence without repetition
NoDuplicates(list) == Cardinality(Range(list)) = Len(list)

\* C14: while the loader lives, each handle list holds exactly the names the
\* graphics library has handed out for its kind, each once, and nothing has
\* been deleted; teardown makes exactly three delete calls, one per list
\* with all its names, which leaves no name in use; nothing is deleted
\* afterwards.
C14_HandlesRecordedOnceDeletedOnce ==
    /\ []((Running_ok /\ ~dropped) =>
             /\ gl_deleted = << >>
             /\ Range(vao_list) = gl_vertex_arrays
             /\ NoDuplicates(vao_list)
             /\ Range(vbo_list) = gl_buffers
             /\ NoDuplicates(vbo_list)
             /\ Range(tex_list) = DOMAIN gl_textures
             /\ NoDuplicates(tex_list))
    /\ [][Teardown =>
             /\ gl_deleted' =
                    << [call |-> "delete_vertex_arrays", names |-> vao_list],
                       [call |-> "delete_buffers", names |-> vbo_list],
                       [call |-> "delete_textures", names |-> tex_list] >>
             /\ gl_vertex_arrays' = {}
             /\ gl_buffers' = {}
             /\ gl_textures' = EmptyMap
         ]_vars
    /\ [][dropped => UNCHANGED gl_deleted]_vars

\* a loader that made a model, a 2D texture and a cubemap has been dropped
C14_Witness ==
    /\ dropped
    /\ Len(gl_deleted) = 3
    /\ Len(gl_deleted[1].names) >= 1
    /\ Len(gl_deleted[2].names) >= 2
    /\ Len(gl_deleted[3].names) = 2
    /\ \E i, j \in 1 .. Len(issued) :
           issued[i].is_cubemap /\ ~issued[j].is_cubemap

\* the resource each init_* function caches is present in m
init_done(m, mdl) == mdl.model_type \in DOMAIN m.models
init_terrain_textures_done(m) ==
    m.texture_pack # None /\ m.blend_texture # None
init_terrain_model_done(m) == m.terrain_model # None
init_gui_textures_done(m) == GuiTextureNames \subseteq DOMAIN m.gui_textures
init_gui_model_done(m) == m.gui_model # None
init_skybox_done(m) == m.skybox_model # None
init_water_done(m) == m.water_model # None
init_fonts_done(m) == FontNames \subseteq DOMAIN m.font_types
init_particle_model_done(m) == m.particle_model # None
init_particle_textures_done(m) ==
    {PARTICLE_ATLAS, FIRE_ATLAS, SMOKE_ATLAS} \subseteq DOMAIN m.particle_textures
init_debug_cuboid_model_done(m) == m.debug_model # None

\* after is what an init_* function makes of m, done whether its resource is
\* present: a call that returns leaves the resource present, and a call that
\* finds it present returns m itself, loader included
Idempotent(m, after, done_before, done_after) ==
    /\ after.panic = "none" => done_after
    /\ done_before => after = m

\* C15: every init_* function of ResourceManager is idempotent: once its
\* resource is initialized, a further call leaves the cached resource and the
\* owned loader (requests, tokens, in-flight count, GPU handles) unchanged
C15_InitIsIdempotent ==
    LET m == ResourceManager
        check(after, done_before, done_after) ==
            Idempotent(m, after, done_before, done_after)
    IN  /\ \A mdl \in ModelsExplored :
               check(init(m, mdl), init_done(m, mdl),
                     init_done(init(m, mdl), mdl))
        /\ check(init_terrain_textures(m), init_terrain_textures_done(m),
                 init_terrain_textures_done(init_terrain_textures(m)))
        /\ check(init_terrain_model(m), init_terrain_model_done(m),
                 init_terrain_model_done(init_terrain_model(m)))
        /\ check(init_gui_textures(m), init_gui_textures_done(m),
                 init_gui_textures_done(init_gui_textures(m)))
        /\ check(init_gui_model(m), init_gui_model_done(m),
                 init_gui_model_done(init_gui_model(m)))
        /\ check(init_skybox(m), init_skybox_done(m),
                 init_skybox_done(init_skybox(m)))
        /\ check(init_water(m), init_water_done(m),
                 init_water_done(init_water(m)))
        /\ check(init_fonts(m), init_fonts_done(m),
                 init_fonts_done(init_fonts(m)))
        /\ check(init_particle_model(m), init_particle_model_done(m),
                 init_particle_model_done(init_particle_model(m)))
        /\ check(init_particle_textures(m), init_particle_textures_done(m),
                 init_particle_textures_done(init_particle_textures(m)))
        /\ check(init_debug_cuboid_model(m), init_debug_cuboid_model_done(m),
                 init_debug_cuboid_model_done(init_debug_cuboid_model(m)))

\* a manager with terrain textures, a normal-mapped model and the skybox
\* initialized, requests of all three still in flight in the owned loader
C15_Witness ==
    /\ panicked = "none"
    /\ init_terrain_textures_done(ResourceManager)
    /\ init_done(ResourceManager, BARREL)
    /\ init_skybox_done(ResourceManager)
    /\ loading_texture_cnt = 19
    /\ Len(vao_list) = 2


\* C16: each accessor of ResourceManager fails in every state where its
\* init_* function has not been called and returns in every state where it
\* has been called, for every key the accessor can be asked for
C16_AccessorSucceedsExactlyAfterInit ==
    LET m == ResourceManager
    IN  panicked = "none" =>
        /\ \A mdl \in ModelsExplored :
               model(m, mdl.model_type).returned <=> init_done(m, mdl)
        /\ terrain_pack(m).returned <=> init_terrain_textures_done(m)
        /\ blend_texture(m).returned <=> init_terrain_textures_done(m)
        /\ terrain_model(m).returned <=> init_terrain_model_done(m)
        /\ \A n \in GuiTextureNames :
               get_gui_texture(m, n).returned <=> init_gui_textures_done(m)
        /\ gui_model(m).returned <=> init_gui_model_done(m)
        /\ skybox(m).returned <=> init_skybox_done(m)
        /\ water_model(m).returned <=> init_water_done(m)
        /\ \A n \in FontNames :
               get_font(m, n).returned <=> init_fonts_done(m)
        /\ particle_model(m).returned <=> init_particle_model_done(m)
        /\ \A t \in ParticleTextureProps :
               particle_texture(m, t).returned
                   <=> init_particle_textures_done(m)
        /\ debug_cuboid_model(m).returned <=> init_debug_cuboid_model_done(m)

\* the stages of a frame in the order render runs them, the two water passes
\* only with water tiles
StagesOfFrame(s) ==
    << "shadow" >>
    \o (IF s.water_tiles > 0 THEN << "reflection", "refraction" >> ELSE << >>)
    \o << "main", "water", "env_map", "particles", "restore" >>

\* entry and exit of every stage of the list, one stage after the other
RECURSIVE StageCalls(_)
StageCalls(stages) ==
    IF stages = << >> THEN << >>
    ELSE Stage(Head(stages)) \o StageCalls(Tail(stages))

IsStageCall(master_call) == master_call.call \in {"begin", "end"}

\* C17: in every render call the stages run in the order shadow pass,
\* reflection and refraction pass (only with water tiles), main camera pass,
\* water surface draw, env-map entities, particles, restoring the default
\* framebuffer; each at most once, each finished before the next begins, and
\* a call that has returned has run them all
C17_StagesInOrder ==
    LET stage_calls == SelectSeq(gl_log, IsStageCall)
        frame == StageCalls(StagesOfFrame(scene))
    IN  /\ Len(stage_calls) <= Len(frame)
        /\ stage_calls = SubSeq(frame, 1, Len(stage_calls))
        /\ (render_pc = "idle" /\ gl_log # << >>) => stage_calls = frame

\* a render call with water tiles that has returned
C17_Witness ==
    /\ render_pc = "idle"
    /\ scene.water_tiles > 0
    /\ Len(SelectSeq(gl_log, IsStageCall)) = 16

IsWaterPassCall(master_call) ==
    \/ master_call.arg = "CLIP_DISTANCE0"
    \/ master_call.call = "set_to_reflected_ray_camera_origin"
    \/ master_call.arg \in {"ReflectionFBO", "RefractionFBO"}
    \/ master_call.arg \in {"reflection", "refraction"}

\* C18: a render call with zero water tiles skips the reflection and the
\* refraction pass: it neither enables nor disables CLIP_DISTANCE0, does not
\* reflect the camera, and neither looks up nor binds the reflection and
\* refraction framebuffers
C18_NoWaterNoWaterPasses ==
    scene.water_tiles = 0 => SelectSeq(gl_log, IsWaterPassCall) = << >>

\* a render call with zero water tiles that has returned
C18_Witness ==
    /\ render_pc = "idle"
    /\ scene.water_tiles = 0
    /\ Len(gl_log) = 17
    /\ scene.entities # << >>

\* groups is a partition of entities by (texture id, vertex array id)
PartitionsByKey(entities, groups) ==
    LET key_of(entity) ==
            << entity.model.texture.tex_id, entity.model.raw_model.vao_id >>
        places(entity) ==
            {<< key, j >> \in (DOMAIN groups) \X (1 .. Len(entities)) :
                 /\ j <= Len(groups[key].entities)
                 /\ groups[key].entities[j] = entity}
    IN  /\ \A key \in DOMAIN groups :
               /\ groups[key].entities # << >>
               /\ Len(groups[key].entities) <= Len(entities)
               /\ \A j \in 1 .. Len(groups[key].entities) :
                      /\ key_of(groups[key].entities[j]) = key
                      /\ groups[key].entities[j] \in Range(entities)
        /\ \A i \in 1 .. Len(entities) :
               Cardinality(places(entities[i])) = 1
        /\ \A i, j \in 1 .. Len(entities) :
               key_of(entities[i]) = key_of(entities[j]) =>
                   \E key \in DOMAIN groups :
                       {entities[i], entities[j]}
                           \subseteq Range(groups[key].entities)

\* C19: group_entities_by_tex partitions its input by (texture id, vertex
\* array id): every entity is in exactly one group exactly once, no group is
\* empty, a group holds one key only, and entities of one key share a group
C19_GroupsPartitionTheEntities ==
    /\ PartitionsByKey(scene.entities, group_entities_by_tex(scene.entities))
    /\ PartitionsByKey(scene.normal_mapped_entities,
                       group_entities_by_tex(scene.normal_mapped_entities))

\* a pass has drawn two entities whose models are the same under the key and
\* differ outside it
C19_Witness ==
    /\ render_pc = "do_water_render_passes"
    /\ Len(scene.entities) = 2
    /\ scene.entities[1].model # scene.entities[2].model
    /\ Cardinality(DOMAIN group_entities_by_tex(scene.entities)) = 1
    /\ Len(pass_log) >= 4

IsPrepare(renderer_call) ==
    /\ renderer_call.call = "prepare_textured_model"
    /\ renderer_call.renderer \in {"entity_renderer", "shadowmap_renderer",
                                   "normal_map_entity_renderer"}
IsUnprepare(renderer_call) ==
    renderer_call.call \in {"unprepare_textured_model", "cleanup_textured_model"}
IsDraw(renderer_call) ==
    /\ renderer_call.call \in {"render", "render_entity"}
    /\ renderer_call.renderer \in {"entity_renderer", "shadowmap_renderer",
                                   "normal_map_entity_renderer"}
IsModelCall(renderer_call) ==
    IsPrepare(renderer_call) \/ IsUnprepare(renderer_call) \/ IsDraw(renderer_call)

\* C20: within one pass every (texture id, vertex array id) key is prepared
\* at most once: a prepare, then the draws of the entities of that key, then
\* the unprepare, before any other model is prepared; the draw of a
\* static-model player included
C20_EachModelPreparedOncePerPass ==
    LET calls == SelectSeq(pass_log, IsModelCall)
        key_of(textured_model) ==
            << textured_model.texture.tex_id, textured_model.raw_model.vao_id >>
        prepared == {i \in 1 .. Len(calls) : IsPrepare(calls[i])}
    IN  /\ \A i, j \in prepared :
               key_of(calls[i].model.value) = key_of(calls[j].model.value)
                   => i = j
        /\ \A i \in 1 .. Len(calls) :
               /\ IsPrepare(calls[i]) =>
                      /\ i = 1 \/ IsUnprepare(calls[i - 1])
                      /\ i < Len(calls)
               /\ IsDraw(calls[i]) =>
                      /\ i > 1
                      /\ i < Len(calls)
                      /\ IsPrepare(calls[i - 1]) \/ IsDraw(calls[i - 1])
                      /\ \E p \in prepared :
                             /\ p < i
                             /\ \A q \in prepared : q < i => q <= p
                             /\ key_of(calls[p].model.value)
                                    = key_of(calls[i].entity.value.model)
               /\ IsUnprepare(calls[i]) =>
                      /\ i > 1
                      /\ IsPrepare(calls[i - 1]) \/ IsDraw(calls[i - 1])

\* ------------------------------------------------------------------------
\* The light uniforms of the static, normal-map and terrain shaders
\* ------------------------------------------------------------------------

\* the longest light list a shader is given
MaxLights == 5

\* the light slots of a shader
NUM_LIGHTS == 4

Vector3f(x, y, z) == << x, y, z >>

ZERO == Vector3f(0, 0, 0)

POS_X_AXIS == Vector3f(1, 0, 0)

Light(position, color, attenuation) ==
    [position |-> position, color |-> color, attenuation |-> attenuation]

\* the lights the shaders are given
LightsExplored ==
    {Light(Vector3f(1, 2, 3), Vector3f(1, 1, 1), Vector3f(1, 0, 0)),
     Light(Vector3f(4, 5, 6), Vector3f(2, 0, 0), Vector3f(1, 1, 2))}

LightLists ==
    UNION {[1 .. n -> LightsExplored] : n \in 0 .. MaxLights}

\* ShaderProgram::load_vector3d: the uniform at the location takes the value
load_vector3d(uniforms, location, value) ==
    [l \in DOMAIN uniforms \cup {location} |->
        IF l = location THEN value ELSE uniforms[l]]

\* the body of the loop of load_lights for slot i
load_lights_slot_skipping_unused(uniforms, lights, no_light, i) ==
    IF i < Len(lights)
    THEN load_vector3d(
             load_vector3d(
                 load_vector3d(uniforms, << "light_pos", i >>,
                               lights[i + 1].position),
                 << "light_color", i >>, lights[i + 1].color),
             << "attenuation", i >>, lights[i + 1].attenuation)
    ELSE uniforms

load_lights_slot(uniforms, lights, no_light, i) ==
    IF i < Len(lights)
    THEN load_vector3d(
             load_vector3d(
                 load_vector3d(uniforms, << "light_pos", i >>,
                               lights[i + 1].position),
                 << "light_color", i >>, lights[i + 1].color),
             << "attenuation", i >>, lights[i + 1].attenuation)
    ELSE load_vector3d(
             load_vector3d(
                 load_vector3d(uniforms, << "light_pos", i >>,
                               no_light.position),
                 << "light_color", i >>, no_light.color),
             << "attenuation", i >>, no_light.attenuation)

\* for i in 0..NUM_LIGHTS, from slot i on
RECURSIVE load_lights_from(_, _, _, _)
load_lights_from(uniforms, lights, no_light, i) ==
    IF i >= NUM_LIGHTS
    THEN uniforms
    ELSE load_lights_from(load_lights_slot(uniforms, lights, no_light, i),
                          lights, no_light, i + 1)

\* the uniforms of a program the graphics library has just linked
UniformsDefault ==
    [l \in {"light_pos", "light_color", "attenuation"}
           \X (0 .. NUM_LIGHTS - 1) |-> ZERO]

\* a call of load_lights on the shader of the kind
load_lights(kind, no_light) ==
    /\ shader_program # None
    /\ shader_program.kind = kind
    /\ \E lights \in LightLists :
          shader_program' =
              [shader_program EXCEPT
                  !.lights = Some(lights),
                  !.uniforms = load_lights_from(@, lights, no_light, 0)]
    /\ UNCHANGED << scene, render_pc, gl_log, pass_log, shadow_box,
                    world_to_lightspace, particle_renderer, scene_pc,
                    loader_vars, life_vars, manager >>

StaticShader_load_lights ==
    load_lights("StaticShader", Light(ZERO, ZERO, POS_X_AXIS))

NormalMapStaticShader_load_lights ==
    load_lights("NormalMapStaticShader", Light(ZERO, ZERO, POS_X_AXIS))

TerrainShader_load_lights ==
    load_lights("TerrainShader",
                Light(Vector3f(0, 0, 0), Vector3f(0, 0, 0),
                      Vector3f(1, 0, 0)))

ShaderKinds == {"StaticShader", "NormalMapStaticShader", "TerrainShader"}

\* one of the three shaders, created and not yet given lights
ShaderInit ==
    /\ LoaderInit
    /\ unreadable = {}
    /\ manager = ManagerDefault
    /\ FrameIdle
    /\ shadow_box = None
    /\ world_to_lightspace = None
    /\ NoStage
    /\ \E kind \in ShaderKinds :
          shader_program =
              [kind |-> kind, lights |-> None, uniforms |-> UniformsDefault]

ShaderNext ==
    \/ StaticShader_load_lights
    \/ NormalMapStaticShader_load_lights
    \/ TerrainShader_load_lights

ShaderSpec == ShaderInit /\ [][ShaderNext]_vars

\* C21: after a call of load_lights with n lights, every one of the four
\* slots holds what the call wrote there: slot i holds the position, colour
\* and attenuation of light i when i < n, and position (0,0,0), colour
\* (0,0,0) and attenuation (1,0,0) when i >= n; lights of index 4 and above
\* appear in no slot; this is so for the static, the normal-map and the
\* terrain shader.
C21_LoadLightsWritesEverySlot ==
    (shader_program # None /\ shader_program.lights # None) =>
        \A i \in 0 .. 3 :
            LET lights == shader_program.lights.value
                uniforms == shader_program.uniforms
            IN  IF i < Len(lights)
                THEN /\ uniforms[<< "light_pos", i >>] = lights[i + 1].position
                     /\ uniforms[<< "light_color", i >>] = lights[i + 1].color
                     /\ uniforms[<< "attenuation", i >>] =
                            lights[i + 1].attenuation
                ELSE /\ uniforms[<< "light_pos", i >>] = << 0, 0, 0 >>
                     /\ uniforms[<< "light_color", i >>] = << 0, 0, 0 >>
                     /\ uniforms[<< "attenuation", i >>] = << 1, 0, 0 >>

\* a terrain shader given five lights, the fifth unlike the fourth
C21_Witness ==
    /\ shader_program # None
    /\ shader_program.kind = "TerrainShader"
    /\ shader_program.lights # None
    /\ Len(shader_program.lights.value) = 5
    /\ shader_program.lights.value[5] # shader_program.lights.value[4]
    /\ DOMAIN shader_program.uniforms =
           {"light_pos", "light_color", "attenuation"} \X (0 .. 3)
\* ------------------------------------------------------------------------
\* The shadow box
\* ------------------------------------------------------------------------

\* half the widest frustum plane a shadow box is created with
MaxHalfSize == 2

\* the widths and heights compute_frustum_sizes gives, of either sign
PlaneSizes == {2 * k : k \in (0 - MaxHalfSize) .. MaxHalfSize}

\* the orientations of the camera an update is given: roll, pitch, yaw
CameraOrientations == {<< 0, 0, 0 >>, << 0, 30, 0 >>, << 0, -90, 180 >>}

\* the world-to-light transforms an update is given: the rigid transforms
\* that move every point by the vector
WorldToLightTransforms ==
    {Vector3f(0, 0, 0), Vector3f(1, 0, -2)}

\* ShadowBox::new: the plane sizes, and the corners at the origin
ShadowBox_new(far_width, far_height, near_width, near_height, near, far) ==
    [farplane_width |-> far_width,
     farplane_height |-> far_height,
     nearplane_width |-> near_width,
     nearplane_height |-> near_height,
     NEAR |-> near,
     FAR |-> far,
     frustum_min_corner |-> Vector3f(0, 0, 0),
     frustum_max_corner |-> Vector3f(0, 0, 0),
     world_space_center |-> Vector3f(0, 0, 0)]

\* transform_vertex_to_lightspace has an empty body: the vertex is left as
\* it is
transform_vertex_to_lightspace(box, vertex) == vertex

calc_camera_frustum_corners_in_lightspace(box, camera_rotation) ==
    LET near_x == box.nearplane_width \div 2
        near_y == box.nearplane_height \div 2
        far_x == box.farplane_width \div 2
        far_y == box.farplane_height \div 2
        corners ==
            << Vector3f(near_x, near_y, box.NEAR),
               Vector3f(near_x, 0 - near_y, box.NEAR),
               Vector3f(0 - near_x, 0 - near_y, box.NEAR),
               Vector3f(0 - near_x, near_y, box.NEAR),
               Vector3f(0 - far_x, far_y, box.FAR),
               Vector3f(far_x, far_y, box.FAR),
               Vector3f(far_x, 0 - far_y, box.FAR),
               Vector3f(0 - far_x, 0 - far_y, box.FAR) >>
    IN  [i \in 1 .. 8 |-> transform_vertex_to_lightspace(box, corners[i])]

\* one axis of one turn of the loop of update: the pair of the least and
\* the greatest coordinate, fitted to the coordinate of the corner
fit_axis_assigning_max(min_max, c) ==
    IF min_max[1] > c
    THEN << min_max[1], c >>
    ELSE IF min_max[2] < c
         THEN << min_max[1], c >>
         ELSE min_max

fit_axis(min_max, c) ==
    IF min_max[1] > c
    THEN << c, min_max[2] >>
    ELSE IF min_max[2] < c
         THEN << min_max[1], c >>
         ELSE min_max

\* for corner in corners, from corner i on
RECURSIVE fit_corners_from(_, _, _)
fit_corners_from(box, corners, i) ==
    IF i > Len(corners)
    THEN box
    ELSE LET x == fit_axis(<< box.frustum_min_corner[1],
                              box.frustum_max_corner[1] >>, corners[i][1])
             y == fit_axis(<< box.frustum_min_corner[2],
                              box.frustum_max_corner[2] >>, corners[i][2])
             z == fit_axis(<< box.frustum_min_corner[3],
                              box.frustum_max_corner[3] >>, corners[i][3])
         IN  fit_corners_from(
                 [box EXCEPT
                     !.frustum_min_corner = Vector3f(x[1], y[1], z[1]),
                     !.frustum_max_corner = Vector3f(x[2], y[2], z[2])],
                 corners, i + 1)

\* the update fitting the corners the box had to the corners of the frustum
update_keeping_old_corners(box, camera_rotation, world_to_light_transform) ==
    fit_corners_from(
        box, calc_camera_frustum_corners_in_lightspace(box, camera_rotation),
        1)

\* ShadowBox::update: world_to_light_transform is not read, and
\* world_space_center is not written
update(box, camera_rotation, world_to_light_transform) ==
    LET corners == calc_camera_frustum_corners_in_lightspace(box,
                                                             camera_rotation)
    IN  fit_corners_from([box EXCEPT !.frustum_min_corner = corners[1],
                                     !.frustum_max_corner = corners[1]],
                         corners, 1)

width(box) == box.frustum_max_corner[1] - box.frustum_min_corner[1]

height(box) == box.frustum_max_corner[2] - box.frustum_min_corner[2]

length(box) == box.frustum_max_corner[3] - box.frustum_min_corner[3]

\* a frame updates the shadow box for the camera's orientation
ShadowBox_update ==
    /\ shadow_box # None
    /\ \E camera_rotation \in CameraOrientations,
          world_to_light_transform \in WorldToLightTransforms :
          shadow_box' =
              [box |-> update(shadow_box.box, camera_rotation,
                              world_to_light_transform),
               updated |-> TRUE,
               camera |-> Some(camera_rotation),
               world_to_light_transform |-> Some(world_to_light_transform)]
    /\ UNCHANGED << scene, render_pc, gl_log, pass_log, shader_program,
                    world_to_lightspace, particle_renderer, scene_pc,
                    loader_vars, life_vars, manager >>

\* a shadow box as ShadowBox::new leaves it
ShadowBoxInit ==
    /\ LoaderInit
    /\ unreadable = {}
    /\ manager = ManagerDefault
    /\ FrameIdle
    /\ shader_program = None
    /\ world_to_lightspace = None
    /\ NoStage
    /\ \E far_width, far_height, near_width, near_height \in PlaneSizes :
          \E near \in {-1, 1}, far \in {-3, 3} :
             shadow_box =
                 [box |-> ShadowBox_new(far_width, far_height, near_width,
                                        near_height, near, far),
                  updated |-> FALSE,
                  camera |-> None,
                  world_to_light_transform |-> None]

ShadowBoxNext == ShadowBox_update

ShadowBoxSpec == ShadowBoxInit /\ [][ShadowBoxNext]_vars

\* C22: after every update of the shadow box, the first one or a later one
\* and whatever the camera's orientation, the least corner is at most the
\* greatest corner in x, in y and in z, so that the width, the height and
\* the length of the box are not negative.
C22_MinCornerBelowMaxCorner ==
    (shadow_box # None /\ shadow_box.updated) =>
        /\ \A axis \in 1 .. 3 :
              shadow_box.box.frustum_min_corner[axis]
                  <= shadow_box.box.frustum_max_corner[axis]
        /\ width(shadow_box.box) >= 0
        /\ height(shadow_box.box) >= 0
        /\ length(shadow_box.box) >= 0

\* an updated box of negative plane widths whose corners differ on every
\* axis
C22_Witness ==
    /\ shadow_box # None
    /\ shadow_box.updated
    /\ shadow_box.box.nearplane_width < 0
    /\ shadow_box.box.farplane_height < 0
    /\ shadow_box.box.NEAR > shadow_box.box.FAR
    /\ width(shadow_box.box) > 0
    /\ height(shadow_box.box) > 0
    /\ length(shadow_box.box) > 0

\* the least and the greatest of the coordinates the points have on the axis
least(points, axis) ==
    CHOOSE c \in {points[i][axis] : i \in DOMAIN points} :
        \A i \in DOMAIN points : c <= points[i][axis]

greatest(points, axis) ==
    CHOOSE c \in {points[i][axis] : i \in DOMAIN points} :
        \A i \in DOMAIN points : c >= points[i][axis]

\* the eight corners the latest update fitted the box to
corners_used ==
    calc_camera_frustum_corners_in_lightspace(shadow_box.box,
                                              shadow_box.camera.value)

\* C33: after an update the least corner of the box is, on every axis, the
\* least coordinate of the eight corner points the update used, and the
\* greatest corner the greatest, whatever the corners were before
C33_CornersAreMinAndMaxOfTheEight ==
    (shadow_box # None /\ shadow_box.updated) =>
        \A axis \in 1 .. 3 :
            /\ shadow_box.box.frustum_min_corner[axis]
                   = least(corners_used, axis)
            /\ shadow_box.box.frustum_max_corner[axis]
                   = greatest(corners_used, axis)

\* an updated box all of whose corner points lie on the positive side of
\* the z axis, away from the corners ShadowBox::new set
C33_Witness ==
    /\ shadow_box # None
    /\ shadow_box.updated
    /\ shadow_box.box.NEAR = 1
    /\ shadow_box.box.FAR = 3
    /\ shadow_box.box.frustum_min_corner[3] = 1
    /\ shadow_box.box.frustum_max_corner[3] = 3
    /\ shadow_box.box.nearplane_width > shadow_box.box.farplane_width
    /\ width(shadow_box.box) = shadow_box.box.nearplane_width

\* the image of the point under the transform
transformed(point, world_to_light_transform) ==
    Vector3f(point[1] + world_to_light_transform[1],
             point[2] + world_to_light_transform[2],
             point[3] + world_to_light_transform[3])

\* the corners of the frustum before transform_vertex_to_lightspace
frustum_corners ==
    LET box == shadow_box.box
        near_x == box.nearplane_width \div 2
        near_y == box.nearplane_height \div 2
        far_x == box.farplane_width \div 2
        far_y == box.farplane_height \div 2
    IN  << Vector3f(near_x, near_y, box.NEAR),
           Vector3f(near_x, 0 - near_y, box.NEAR),
           Vector3f(0 - near_x, 0 - near_y, box.NEAR),
           Vector3f(0 - near_x, near_y, box.NEAR),
           Vector3f(0 - far_x, far_y, box.FAR),
           Vector3f(far_x, far_y, box.FAR),
           Vector3f(far_x, 0 - far_y, box.FAR),
           Vector3f(0 - far_x, 0 - far_y, box.FAR) >>

C35_CenterIsRecomputed ==
    (shadow_box # None /\ shadow_box.updated) =>
        \A axis \in 1 .. 3 :
            2 * shadow_box.box.world_space_center[axis]
                = shadow_box.box.frustum_min_corner[axis]
                  + shadow_box.box.frustum_max_corner[axis]
                  - 2 * shadow_box.world_to_light_transform.value[axis]
\* ------------------------------------------------------------------------
\* The view from the sun
\* ------------------------------------------------------------------------

\* the greatest coordinate of a sun direction
MaxCoord == 2

SHADOW_DISTANCE == 100

POS_Y_AXIS == Vector3f(0, 1, 0)

POS_Z_AXIS == Vector3f(0, 0, 1)

dot(a, b) == a[1] * b[1] + a[2] * b[2] + a[3] * b[3]

cross(a, b) ==
    Vector3f(a[2] * b[3] - a[3] * b[2],
             a[3] * b[1] - a[1] * b[3],
             a[1] * b[2] - a[2] * b[1])

\* a vector of whole coordinates divided by the root of len2: what a
\* division by a length gives, without rounding
Scaled(dir, len2) == [dir |-> dir, len2 |-> len2]

\* Vector3f::normalize: the vector divided by its length
normalize(v) == Scaled(v, dot(v, v))

\* number * vector, for a vector divided by a length
scale(number, v) ==
    Scaled(Vector3f(number * v.dir[1], number * v.dir[2],
                    number * v.dir[3]), v.len2)

\* Vector3f::parallel: the vectors point the same or the opposite way, or
\* nearly so: the square of the cosine of their angle is at least 4/5
parallel(a, b) ==
    5 * dot(a, b.dir) * dot(a, b.dir) >= 4 * dot(a, a) * dot(b.dir, b.dir)

\* Matrix4f::look_at for a target at the origin: the axes of the view, each
\* up to a positive factor
look_at(eye, up) ==
    LET forward == Vector3f(0 - eye.dir[1], 0 - eye.dir[2], 0 - eye.dir[3])
        side == cross(forward, up)
    IN  [tag |-> "look_at",
         forward |-> forward,
         side |-> side,
         up |-> cross(side, forward)]

\* ShadowMapRenderer::update_world_to_lightspace, for a shadow box centred
\* at the origin: the up vector chosen, and the view built with it
update_world_to_lightspace_up_always_y(sun_direction) ==
    LET normalized_sun_dir == normalize(sun_direction)
        sun_position == scale(SHADOW_DISTANCE \div 2, normalized_sun_dir)
    IN  [sun_direction |-> sun_direction,
         up |-> POS_Y_AXIS,
         matrix |-> look_at(sun_position, POS_Y_AXIS)]

update_world_to_lightspace(sun_direction) ==
    LET normalized_sun_dir == normalize(sun_direction)
        sun_position == scale(SHADOW_DISTANCE \div 2, normalized_sun_dir)
        up == IF parallel(POS_Y_AXIS, normalized_sun_dir)
              THEN POS_Z_AXIS
              ELSE POS_Y_AXIS
    IN  [sun_direction |-> sun_direction,
         up |-> up,
         matrix |-> look_at(sun_position, up)]

\* the positions of the sun, which give its direction: every point of the
\* grid but the origin, which has no direction
SunDirections ==
    {d \in ((0 - MaxCoord) .. MaxCoord) \X ((0 - MaxCoord) .. MaxCoord)
            \X ((0 - MaxCoord) .. MaxCoord) : d # << 0, 0, 0 >>}

\* start_render rebuilds the view from the sun of the frame
rebuild_world_to_lightspace ==
    /\ world_to_lightspace # None
    /\ \E sun_direction \in SunDirections :
          world_to_lightspace' = update_world_to_lightspace(sun_direction)
    /\ UNCHANGED << scene, render_pc, gl_log, pass_log, shader_program,
                    shadow_box, particle_renderer, scene_pc,
                    loader_vars, life_vars, manager >>

\* a shadow map renderer as ShadowMapRenderer::new leaves it
LightSpaceInit ==
    /\ LoaderInit
    /\ unreadable = {}
    /\ manager = ManagerDefault
    /\ FrameIdle
    /\ shader_program = None
    /\ shadow_box = None
    /\ NoStage
    /\ world_to_lightspace =
           [sun_direction |-> None, up |-> None,
            matrix |-> [tag |-> "identity"]]

LightSpaceNext == rebuild_world_to_lightspace

LightSpaceSpec == LightSpaceInit /\ [][LightSpaceNext]_vars

Prefix(log, k) == SubSeq(log, 1, k)

Last(log, positions) == CHOOSE k \in positions : \A j \in positions : j <= k

Count(log, Test(_)) == Len(SelectSeq(log, Test))

Occurs(log, call) == \E k \in 1 .. Len(log) : log[k] = call

Position(log, call) == CHOOSE k \in 1 .. Len(log) : log[k] = call

\* FramebufferObject::bind and Display::restore_default_framebuffer: the
\* render target is the framebuffer last bound, and the default framebuffer
\* at first and after a restore
bound_framebuffer(log) ==
    LET binds == {k \in 1 .. Len(log) :
                     log[k].call \in {"bind", "restore_default_framebuffer"}}
    IN  IF binds = {} THEN "default"
        ELSE IF log[Last(log, binds)].call = "bind"
        THEN log[Last(log, binds)].arg
        ELSE "default"

\* gl::enable and gl::disable of CLIP_DISTANCE0: disabled at first
clip_distance_enabled(log) ==
    LET toggles == {k \in 1 .. Len(log) : log[k].arg = "CLIP_DISTANCE0"}
    IN  /\ toggles # {}
        /\ log[Last(log, toggles)].call = "enable"

IsReflectCamera(master_call) ==
    master_call.call = "set_to_reflected_ray_camera_origin"

\* how often the camera has been mirrored at the water
camera_reflections(log) == Count(log, IsReflectCamera)

\* the framebuffer each pass draws into
FboOfStage ==
    [stage \in {"shadow", "reflection", "refraction", "main"} |->
        IF stage = "shadow" THEN "ShadowMapFBO"
        ELSE IF stage = "reflection" THEN "ReflectionFBO"
        ELSE IF stage = "refraction" THEN "RefractionFBO"
        ELSE "CameraTextureMultisampled"]

NeededFbos(s) ==
    {"ShadowMapFBO", "CameraTextureMultisampled"}
    \cup (IF s.water_tiles > 0 THEN {"ReflectionFBO", "RefractionFBO"}
          ELSE {})

returned_from_render == render_pc = "idle" /\ gl_log # << >>

IsShadowDraw(renderer_call) ==
    /\ renderer_call.renderer = "shadowmap_renderer"
    /\ renderer_call.call \notin {"start_render", "stop_render"}

\* C24: a render call returns only if every framebuffer it needs is there:
\* the shadow map framebuffer with its depth texture and the camera
\* framebuffer always, the reflection and the refraction framebuffer with
\* water tiles; a pass begins only with its own framebuffer found and bound,
\* never with another target in its place, and with a shadow framebuffer
\* without depth texture the shadow pass draws nothing and does not end
C24_MissingFramebufferIsFatal ==
    /\ returned_from_render =>
           /\ NeededFbos(scene) \subseteq DOMAIN scene.framebuffers
           /\ scene.framebuffers["ShadowMapFBO"].depth_texture # None
    /\ \A k \in 1 .. Len(gl_log) :
           (gl_log[k].call = "begin" /\ gl_log[k].arg \in DOMAIN FboOfStage) =>
               /\ FboOfStage[gl_log[k].arg] \in DOMAIN scene.framebuffers
               /\ bound_framebuffer(Prefix(gl_log, k))
                      = FboOfStage[gl_log[k].arg]
    /\ ("ShadowMapFBO" \in DOMAIN scene.framebuffers
            /\ scene.framebuffers["ShadowMapFBO"].depth_texture = None) =>
           /\ \A i \in 1 .. Len(pass_log) : ~IsShadowDraw(pass_log[i])
           /\ \A k \in 1 .. Len(gl_log) :
                  gl_log[k] # MasterCall("end", "shadow")

\* a frame with water tiles and no refraction framebuffer has ended in the
\* panic, after the reflection pass and before the refraction pass
C24_Witness ==
    /\ render_pc = "panicked"
    /\ scene.water_tiles > 0
    /\ "RefractionFBO" \notin DOMAIN scene.framebuffers
    /\ \E k \in 1 .. Len(gl_log) : gl_log[k] = MasterCall("end", "reflection")
    /\ gl_log[Len(gl_log)] =
           MasterCall("panic", "Must have refraction fbo for water render")

IsBindTexture(renderer_call) ==
    renderer_call.call \in {"bind_texture TEXTURE_2D",
                            "bind_texture TEXTURE_CUBE_MAP"}

IsStartRender(renderer_call) ==
    renderer_call.renderer = "shadowmap_renderer"
        /\ renderer_call.call = "start_render"

IsStopRender(renderer_call) ==
    renderer_call.renderer = "shadowmap_renderer"
        /\ renderer_call.call = "stop_render"

IsShaderStart(renderer_call) ==
    renderer_call.renderer = "shadow_shader" /\ renderer_call.call = "start"

IsShaderStop(renderer_call) ==
    renderer_call.renderer = "shadow_shader" /\ renderer_call.call = "stop"

\* C26: the shadow map renderer is entered once per frame and left again:
\* start_render and stop_render alternate, start_render first; every draw of
\* the shadow map renderer comes after a start_render and before the next
\* stop_render, with the shadow shader started and not yet stopped and with
\* the shadow framebuffer bound; the shadow pass of a frame ends with
\* stop_render
C26_ShadowRendererIdleRenderingIdle ==
    /\ \A i \in 1 .. Len(pass_log) :
           LET before == Prefix(pass_log, i - 1)
               rendering == Count(before, IsStartRender)
                                = Count(before, IsStopRender) + 1
               idle == Count(before, IsStartRender)
                           = Count(before, IsStopRender)
           IN  /\ IsStartRender(pass_log[i]) => idle
               /\ IsStopRender(pass_log[i]) => rendering
               /\ IsShadowDraw(pass_log[i]) =>
                      /\ rendering
                      /\ Count(before, IsShaderStart)
                             = Count(before, IsShaderStop) + 1
                      /\ bound_framebuffer(gl_log) = "ShadowMapFBO"
    /\ render_pc = "do_water_render_passes" =>
           /\ Count(pass_log, IsStartRender) = 1
           /\ Count(pass_log, IsStopRender) = 1
           /\ IsStartRender(pass_log[1])
           /\ IsStopRender(pass_log[Len(pass_log)])

\* a shadow pass that drew two groups of entities and the terrain
C26_Witness ==
    /\ render_pc = "do_water_render_passes"
    /\ Count(pass_log, IsShadowDraw) >= 7
    /\ IsStopRender(pass_log[Len(pass_log)])

\* C27: when render has returned, the default framebuffer is the render
\* target, whatever the scene was
C27_DefaultFramebufferAtReturn ==
    returned_from_render => bound_framebuffer(gl_log) = "default"

\* a frame with water tiles has returned, having bound four framebuffers
C27_Witness ==
    /\ returned_from_render
    /\ scene.water_tiles > 0
    /\ \E k \in 1 .. Len(gl_log) :
           gl_log[k] = MasterCall("bind", "CameraTextureMultisampled")
    /\ bound_framebuffer(gl_log) = "default"

IsEnableClip(master_call) == master_call = MasterCall("enable", "CLIP_DISTANCE0")

IsDisableClip(master_call) ==
    master_call = MasterCall("disable", "CLIP_DISTANCE0")

\* C28: in a frame with water tiles CLIP_DISTANCE0 is enabled at most once
\* and disabled at most once; it is enabled from the beginning to the end of
\* the reflection pass and of the refraction pass, and disabled in every
\* other stage and when render returns; a frame that has returned enabled it
\* once before the reflection pass began and disabled it once after the
\* refraction pass ended
C28_ClipPlaneBracketsWaterPasses ==
    scene.water_tiles > 0 =>
        /\ Count(gl_log, IsEnableClip) <= 1
        /\ Count(gl_log, IsDisableClip) <= 1
        /\ \A k \in 1 .. Len(gl_log) :
               gl_log[k].call \in {"begin", "end"} =>
                   (clip_distance_enabled(Prefix(gl_log, k))
                        <=> gl_log[k].arg \in {"reflection", "refraction"})
        /\ returned_from_render =>
               /\ ~clip_distance_enabled(gl_log)
               /\ \A call \in {MasterCall("enable", "CLIP_DISTANCE0"),
                                MasterCall("begin", "reflection"),
                                MasterCall("end", "refraction"),
                                MasterCall("disable", "CLIP_DISTANCE0")} :
                      Occurs(gl_log, call)
               /\ Position(gl_log, MasterCall("enable", "CLIP_DISTANCE0"))
                      < Position(gl_log, MasterCall("begin", "reflection"))
               /\ Position(gl_log, MasterCall("end", "refraction"))
                      < Position(gl_log, MasterCall("disable", "CLIP_DISTANCE0"))

\* a frame with water tiles has returned
C28_Witness ==
    /\ returned_from_render
    /\ scene.water_tiles > 0
    /\ Count(gl_log, IsEnableClip) = 1
    /\ Count(gl_log, IsDisableClip) = 1

\* C29: the camera is mirrored at the water twice in a frame with water
\* tiles and never in a frame without: once before the reflection pass,
\* which sees it mirrored once, and once more before the refraction pass, so
\* that the refraction pass, the main pass and the caller see it mirrored
\* an even number of times
C29_CameraReflectedTwice ==
    /\ \A k \in 1 .. Len(gl_log) :
           gl_log[k].call \in {"begin", "end"} =>
               camera_reflections(Prefix(gl_log, k)) =
                   IF scene.water_tiles = 0 THEN 0
                   ELSE IF gl_log[k].arg = "shadow" THEN 0
                   ELSE IF gl_log[k].arg = "reflection" THEN 1
                   ELSE 2
    /\ returned_from_render =>
           camera_reflections(gl_log)
               = IF scene.water_tiles > 0 THEN 2 ELSE 0

\* the refraction pass of a frame with water tiles has run
C29_Witness ==
    /\ scene.water_tiles > 0
    /\ render_pc = "render_pass"
    /\ camera_reflections(gl_log) = 2
    /\ gl_log[Len(gl_log) - 1] = MasterCall("end", "refraction")

\* C30: when do_shadowmap_render_passes has finished, the shadow framebuffer
\* is no longer the render target
C30_ShadowFramebufferUnboundAfterPass ==
    render_pc = "do_water_render_passes" =>
        bound_framebuffer(gl_log) # "ShadowMapFBO"
\* ------------------------------------------------------------------------
\* Setting up a scene
\* ------------------------------------------------------------------------

\* how often the model runs a loop of create_scene or create_world
MaxTurns == 2

\* Model(model_type, obj_file, texture_file, model_props)
Model(model_type, obj_file, tex_file, model_props) ==
    [model_type |-> model_type, obj_file |-> obj_file,
     texture_file |-> tex_file, model_props |-> model_props]

COMMON_PROPS ==
    [has_transparency |-> FALSE, uses_fake_lighting |-> FALSE,
     atlas_props |-> 1, normal_map |-> None]

\* differs from COMMON_PROPS in shine damper and reflectivity only
SHINY_PROPS == COMMON_PROPS

GRASS_PROPS ==
    [has_transparency |-> TRUE, uses_fake_lighting |-> TRUE,
     atlas_props |-> 1, normal_map |-> None]

LAMP_PROPS ==
    [has_transparency |-> FALSE, uses_fake_lighting |-> TRUE,
     atlas_props |-> 1, normal_map |-> None]

BOULDER_PROPS ==
    [has_transparency |-> FALSE, uses_fake_lighting |-> FALSE,
     atlas_props |-> 1,
     normal_map |-> Some("res/textures/normal_maps/boulderNormal.png")]

PLAYER ==
    Model("Player", "res/models/person.obj",
          "res/textures/playerTexture.png", COMMON_PROPS)
LOW_POLY_TREE ==
    Model("LowPolyTree", "res/models/lowPolyTree.obj",
          "res/textures/lowPolyTree.png", COMMON_PROPS)
GRASS ==
    Model("Grass", "res/models/grassModel.obj",
          "res/textures/grassTexture.png", GRASS_PROPS)
CRATE ==
    Model("Crate", "res/models/box.obj", "res/textures/box.png", COMMON_PROPS)
LAMP ==
    Model("Lamp", "res/models/lamp.obj", "res/textures/lamp.png", LAMP_PROPS)
TOON_ROCKS ==
    Model("ToonRocks", "res/models/toonRocks.obj",
          "res/textures/toonRocks.png", SHINY_PROPS)
BOBBLE_TREE ==
    Model("BobbleTree", "res/models/bobbleTree.obj",
          "res/textures/bobbleTree.png", COMMON_PROPS)
BOULDER ==
    Model("Boulder", "res/models/boulder.obj", "res/textures/boulder.png",
          BOULDER_PROPS)

\* the two models the scenes name that Models does not declare
LANTERN ==
    Model("Lantern", "res/models/lantern.obj", "res/textures/lantern.png",
          COMMON_PROPS)
FLOOR_TILE ==
    Model("FloorTile", "res/models/floor_tile.obj",
          "res/textures/floor_tile.png", COMMON_PROPS)

\* the animated player model: loaded once, fatal to read before
init_player(m) ==
    IF m.player_model = None
    THEN LET l == load_animated_model_to_vao(m.loader)
         IN  [m EXCEPT !.loader = l,
                       !.player_model = Some([raw_model |-> l.ret])]
    ELSE m

player_model(m) ==
    expect(m.player_model, "Need to call init_player before accessing the model")

\* the quad the post processing draws on: loaded once, fatal to read before
init_quad_model(m) ==
    IF m.quad_model = None
    THEN LET l == load_simple_model_to_vao(m.loader)
         IN  [m EXCEPT !.loader = l,
                       !.quad_model = Some([raw_model |-> l.ret])]
    ELSE m

quad_model(m) ==
    expect(m.quad_model, "Need to call init_quad_model before accessing the model")

\* what a fatal accessor makes of the manager: the call panics
accessed(m, outcome) ==
    IF outcome.returned THEN m ELSE [m EXCEPT !.panic = outcome.message]

\* create_gui_text: the font is looked up, then the mesh of the text loaded
create_gui_text(m, font_name) ==
    IF get_font(m, font_name).returned
    THEN [m EXCEPT !.loader = load_quads_mesh_to_vao(m.loader)]
    ELSE accessed(m, get_font(m, font_name))

\* a call a scene makes on the resource manager
ManagerCall(fn, arg) == [fn |-> fn, arg |-> arg]

RECURSIVE Repeated(_, _)
Repeated(calls, turns) ==
    IF turns = 0 THEN << >> ELSE calls \o Repeated(calls, turns - 1)

SceneNames == {"all_scene", "simple_floor_scene", "main"}

\* init_scene_resources of the two scenes and init_resources of main
init_scene_resources(scene_name) ==
    IF scene_name = "all_scene"
    THEN << ManagerCall("init", FERN), ManagerCall("init", TOON_ROCKS),
            ManagerCall("init", BOBBLE_TREE),
            ManagerCall("init", LOW_POLY_TREE), ManagerCall("init", CRATE),
            ManagerCall("init", LAMP), ManagerCall("init", BARREL),
            ManagerCall("init", BOULDER), ManagerCall("init", LANTERN),
            ManagerCall("init", PLAYER), ManagerCall("init_player", ""),
            ManagerCall("init_terrain_textures", ""),
            ManagerCall("init_terrain_model", ""),
            ManagerCall("init_skybox", ""), ManagerCall("init_water", ""),
            ManagerCall("init_quad_model", ""),
            ManagerCall("init_gui_textures", ""),
            ManagerCall("init_fonts", ""),
            ManagerCall("init_particle_model", ""),
            ManagerCall("init_particle_textures", ""),
            ManagerCall("init_debug_cuboid_model", "") >>
    ELSE IF scene_name = "simple_floor_scene"
    THEN << ManagerCall("init", PLAYER), ManagerCall("init_skybox", ""),
            ManagerCall("init", FLOOR_TILE),
            ManagerCall("init_quad_model", ""),
            ManagerCall("init_debug_cuboid_model", "") >>
    ELSE << ManagerCall("init", FERN), ManagerCall("init", GRASS),
            ManagerCall("init", TOON_ROCKS), ManagerCall("init", BOBBLE_TREE),
            ManagerCall("init", LOW_POLY_TREE),
            ManagerCall("init_terrain_textures", ""),
            ManagerCall("init_terrain_model", ""),
            ManagerCall("init", PLAYER), ManagerCall("init", CRATE),
            ManagerCall("init", LAMP), ManagerCall("init_gui_model", ""),
            ManagerCall("init_gui_textures", ""),
            ManagerCall("init_skybox", ""), ManagerCall("init_water", "") >>

\* the accessors create_scene of the two scenes calls, and those create_world
\* and main call in main.rs, in the order of the calls
create_scene(scene_name) ==
    IF scene_name = "all_scene"
    THEN Repeated(<< ManagerCall("terrain_pack", ""),
                     ManagerCall("blend_texture", ""),
                     ManagerCall("terrain_model", "") >>, MaxTurns)
         \o Repeated(<< ManagerCall("model", "LowPolyTree"),
                        ManagerCall("model", "Fern"),
                        ManagerCall("model", "BobbleTree"),
                        ManagerCall("model", "ToonRocks") >>, MaxTurns)
         \o << ManagerCall("player_model", ""),
               ManagerCall("model", "Crate"),
               ManagerCall("water_model", ""),
               ManagerCall("model", "Barrel"),
               ManagerCall("model", "Boulder"),
               ManagerCall("debug_cuboid_model", ""),
               ManagerCall("skybox", ""),
               ManagerCall("create_gui_text", COPPER_SDF_FONT_TYPE),
               ManagerCall("create_gui_text", COPPER_SDF_FONT_TYPE),
               ManagerCall("get_gui_texture", HEALTHBAR_TEXTURE),
               ManagerCall("get_gui_texture", GUI_BACKGROUND_TEXTURE),
               ManagerCall("model", "Lantern"),
               ManagerCall("model", "Lamp"),
               ManagerCall("model", "Lamp"),
               ManagerCall("model", "Lamp"),
               ManagerCall("particle_model", ""),
               ManagerCall("particle_texture", PARTICLE_ATLAS),
               ManagerCall("particle_model", ""),
               ManagerCall("particle_texture", FIRE_ATLAS),
               ManagerCall("particle_model", ""),
               ManagerCall("particle_texture", SMOKE_ATLAS),
               ManagerCall("quad_model", "") >>
    ELSE IF scene_name = "simple_floor_scene"
    THEN Repeated(<< ManagerCall("model", "FloorTile") >>, MaxTurns)
         \o << ManagerCall("model", "Player"),
               ManagerCall("debug_cuboid_model", ""),
               ManagerCall("skybox", ""),
               ManagerCall("quad_model", "") >>
    ELSE Repeated(<< ManagerCall("terrain_pack", ""),
                     ManagerCall("blend_texture", ""),
                     ManagerCall("terrain_model", "") >>, MaxTurns)
         \o Repeated(<< ManagerCall("model", "LowPolyTree"),
                        ManagerCall("model", "Fern"),
                        ManagerCall("model", "Grass"),
                        ManagerCall("model", "BobbleTree"),
                        ManagerCall("model", "ToonRocks") >>, MaxTurns)
         \o << ManagerCall("model", "Player"),
               ManagerCall("model", "Crate"),
               ManagerCall("water_model", ""),
               ManagerCall("gui_model", ""),
               ManagerCall("get_gui_texture", HEALTHBAR_TEXTURE),
               ManagerCall("get_gui_texture", GUI_BACKGROUND_TEXTURE),
               ManagerCall("model", "Lamp"),
               ManagerCall("model", "Lamp"),
               ManagerCall("model", "Lamp"),
               ManagerCall("skybox", "") >>

\* what the call makes of the manager
performed(m, c) ==
    CASE c.fn = "init" -> init(m, c.arg)
      [] c.fn = "init_player" -> init_player(m)
      [] c.fn = "init_terrain_textures" -> init_terrain_textures(m)
      [] c.fn = "init_terrain_model" -> init_terrain_model(m)
      [] c.fn = "init_skybox" -> init_skybox(m)
      [] c.fn = "init_water" -> init_water(m)
      [] c.fn = "init_quad_model" -> init_quad_model(m)
      [] c.fn = "init_gui_model" -> init_gui_model(m)
      [] c.fn = "init_gui_textures" -> init_gui_textures(m)
      [] c.fn = "init_fonts" -> init_fonts(m)
      [] c.fn = "init_particle_model" -> init_particle_model(m)
      [] c.fn = "init_particle_textures" -> init_particle_textures(m)
      [] c.fn = "init_debug_cuboid_model" -> init_debug_cuboid_model(m)
      [] c.fn = "model" -> accessed(m, model(m, c.arg))
      [] c.fn = "player_model" -> accessed(m, player_model(m))
      [] c.fn = "terrain_pack" -> accessed(m, terrain_pack(m))
      [] c.fn = "blend_texture" -> accessed(m, blend_texture(m))
      [] c.fn = "terrain_model" -> accessed(m, terrain_model(m))
      [] c.fn = "skybox" -> accessed(m, skybox(m))
      [] c.fn = "water_model" -> accessed(m, water_model(m))
      [] c.fn = "quad_model" -> accessed(m, quad_model(m))
      [] c.fn = "gui_model" -> accessed(m, gui_model(m))
      [] c.fn = "get_gui_texture" -> accessed(m, get_gui_texture(m, c.arg))
      [] c.fn = "create_gui_text" -> create_gui_text(m, c.arg)
      [] c.fn = "particle_model" -> accessed(m, particle_model(m))
      [] c.fn = "particle_texture" -> accessed(m, particle_texture(m, c.arg))
      [] c.fn = "debug_cuboid_model" -> accessed(m, debug_cuboid_model(m))

\* one call of a scene on the resource manager: m is what it makes of
\* ResourceManager, next where the scene goes on when the call returns
SceneCall(m, next) ==
    /\ panicked = "none"
    /\ IF m.panic # "none"
       THEN Abort(m.panic)
       ELSE /\ texture_token_gen' = m.loader.texture_token_gen
            /\ loading_texture_cnt' = m.loader.loading_texture_cnt
            /\ thread_pool' = m.loader.thread_pool
            /\ cubemap_token_gen' = m.loader.cubemap_token_gen
            /\ unprocessed_cubemap_textures' =
                   m.loader.unprocessed_cubemap_textures
            /\ vao_list' = m.loader.vao_list
            /\ vbo_list' = m.loader.vbo_list
            /\ gl_vertex_arrays' = m.loader.gl_vertex_arrays
            /\ gl_buffers' = m.loader.gl_buffers
            /\ manager' = [f \in DOMAIN manager |-> m[f]]
            /\ scene_pc' = next
            /\ UNCHANGED << tex_list, texture_token_map, channel, gl_textures,
                            gl_calls, issued, drained, panicked >>
            /\ UNCHANGED << gl_deleted, dropped, worker_panics, unreadable >>
            /\ UNCHANGED << scene, render_pc, gl_log, pass_log, shader_program,
                            shadow_box, world_to_lightspace,
                            particle_renderer >>

\* the next call of init_scene_resources; after the last one create_scene
\* is entered
init_scene_resources_call ==
    /\ scene_pc # None
    /\ scene_pc.phase = "init_scene_resources"
    /\ LET calls == init_scene_resources(scene_pc.scene)
       IN  SceneCall(performed(ResourceManager, calls[scene_pc.at]),
                     IF scene_pc.at = Len(calls)
                     THEN [scene_pc EXCEPT !.phase = "create_scene", !.at = 1]
                     ELSE [scene_pc EXCEPT !.at = @ + 1])

\* the next call of create_scene; after the last one the scene is set up
create_scene_call ==
    /\ scene_pc # None
    /\ scene_pc.phase = "create_scene"
    /\ LET calls == create_scene(scene_pc.scene)
       IN  SceneCall(performed(ResourceManager, calls[scene_pc.at]),
                     IF scene_pc.at = Len(calls)
                     THEN [scene_pc EXCEPT !.phase = "returned", !.at = 1]
                     ELSE [scene_pc EXCEPT !.at = @ + 1])

\* a fresh ResourceManager and a scene about to call init_scene_resources
SceneInit ==
    /\ LoaderInit
    /\ unreadable \in { {}, {FERN.obj_file} }
    /\ manager = ManagerDefault
    /\ FrameIdle
    /\ shader_program = None
    /\ shadow_box = None
    /\ world_to_lightspace = None
    /\ particle_renderer = None
    /\ \E scene_name \in SceneNames :
          scene_pc = [scene |-> scene_name,
                      phase |-> "init_scene_resources",
                      at |-> 1]

SceneNext ==
    \/ init_scene_resources_call
    \/ create_scene_call

SceneSpec == SceneInit /\ [][SceneNext]_vars

\* C37: a scene that calls its init_scene_resources and then its
\* create_scene on a fresh resource manager does not panic in create_scene:
\* every accessor finds its resource initialized, and the only panic a
\* setup can end in is the one of init for a file that does not load
C37_ScenesInitBeforeUse ==
    scene_pc # None =>
        (panicked # "none" =>
            /\ scene_pc.phase = "init_scene_resources"
            /\ panicked = "Unable to load simple " \o FERN.obj_file)

\* create_scene of all_scene has returned
C37_Witness ==
    /\ scene_pc # None
    /\ scene_pc.scene = "all_scene"
    /\ scene_pc.phase = "returned"
    /\ panicked = "none"
    /\ manager.quad_model # None
    /\ DOMAIN manager.particle_textures
           = {PARTICLE_ATLAS, FIRE_ATLAS, SMOKE_ATLAS}

\* ------------------------------------------------------------------------
\* The content of a cubemap
\* ------------------------------------------------------------------------

\* the cubemap textures of the graphics library
UploadedCubemaps ==
    {id \in DOMAIN gl_textures : gl_textures[id].target = "TEXTURE_CUBE_MAP"}

\* what the cubemap of the folder holds if every face target holds the
\* image of the file requested for it
cubemap_of_folder(cube_map_folder) ==
    [target \in Range(CUBEMAP_FACES) |->
        LET k == CHOOSE i \in 1 .. CubemapFaces : CUBEMAP_FACES[i] = target
        IN  load_rgba_2d_texture(face_filename(cube_map_folder, k))]

\* C36: an uploaded cubemap holds on its k-th face target the image that was
\* requested as its k-th face, in whatever order the six images arrived,
\* and the six upload calls go to six different face targets
C36_CubemapContentIgnoresArrivalOrder ==
    /\ \A id \in UploadedCubemaps :
           \E n \in 1 .. cubemap_token_gen :
               gl_textures[id].images = cubemap_of_folder(cube_map_folder_of(n))
    /\ Len(gl_calls) = CubemapFaces =>
           \A i, j \in 1 .. CubemapFaces :
               gl_calls[i].target = gl_calls[j].target => i = j

\* a cubemap is uploaded whose second face arrived first
C36_Witness ==
    /\ Len(gl_calls) = CubemapFaces
    /\ gl_calls[1].face = 2
    /\ UploadedCubemaps # {}

\* ------------------------------------------------------------------------
\* The particle renderer
\* ------------------------------------------------------------------------

\* the most particles one texture has in the map given to render
MaxParticles == 2

ParticleTexture(tex_id, additive) == [tex_id |-> tex_id, additive |-> additive]

ParticleTexturesExplored ==
    {ParticleTexture(1, TRUE), ParticleTexture(2, FALSE)}

\* the maps render is given: for some of the textures the number of
\* particles in its list, which may be empty
ParticleMaps ==
    UNION {[textures -> 0 .. MaxParticles] :
              textures \in SUBSET ParticleTexturesExplored}

\* the state of the graphics library the renderer works on, as the caller
\* of render leaves it
GlStates ==
    [depth_mask : BOOLEAN, blend : BOOLEAN, blend_func : {"none"},
     shader_started : {FALSE}]

\* prepare: the shader is started, depth writes are switched off and
\* blending on
prepare(gl) ==
    [gl EXCEPT !.shader_started = TRUE, !.depth_mask = FALSE, !.blend = TRUE]

\* the blend function chosen for the texture of a group
blend_func(gl, texture) ==
    [gl EXCEPT !.blend_func = IF texture.additive
                              THEN "SRC_ALPHA, ONE"
                              ELSE "SRC_ALPHA, ONE_MINUS_SRC_ALPHA"]

\* render_particle: the draw of one particle, with the state it is made in
render_particle(gl, texture) == [texture |-> texture, gl |-> gl]

\* finish_rendering with blending left switched on
finish_rendering_leaving_blend(gl) ==
    [gl EXCEPT !.depth_mask = TRUE, !.shader_started = FALSE]

\* finish_rendering: depth writes on, blending off, the shader stopped
finish_rendering(gl) ==
    [gl EXCEPT !.depth_mask = TRUE, !.blend = FALSE,
               !.shader_started = FALSE]

\* render is entered: self.prepare()
ParticleRenderer_prepare ==
    /\ particle_renderer # None
    /\ particle_renderer.pc = "render"
    /\ particle_renderer' = [particle_renderer EXCEPT
                                !.gl = prepare(@),
                                !.pending = DOMAIN particle_renderer.particles,
                                !.draws = << >>,
                                !.pc = "for"]
    /\ UNCHANGED << scene, render_pc, gl_log, pass_log, shader_program,
                    shadow_box, world_to_lightspace, scene_pc,
                    loader_vars, life_vars, manager >>

\* one turn of the loop over the map, whose order the HashMap decides: the
\* texture is bound, its blend function set and its particles drawn
ParticleRenderer_for ==
    /\ particle_renderer # None
    /\ particle_renderer.pc = "for"
    /\ \E texture \in particle_renderer.pending :
          LET gl == blend_func(particle_renderer.gl, texture)
              n == particle_renderer.particles[texture]
          IN  particle_renderer' =
                  [particle_renderer EXCEPT
                      !.gl = gl,
                      !.pending = @ \ {texture},
                      !.draws = @ \o [i \in 1 .. n |->
                                         render_particle(gl, texture)]]
    /\ UNCHANGED << scene, render_pc, gl_log, pass_log, shader_program,
                    shadow_box, world_to_lightspace, scene_pc,
                    loader_vars, life_vars, manager >>

\* the loop has ended: self.finish_rendering(), and render returns
ParticleRenderer_finish_rendering ==
    /\ particle_renderer # None
    /\ particle_renderer.pc = "for"
    /\ particle_renderer.pending = {}
    /\ particle_renderer' = [particle_renderer EXCEPT
                                !.gl = finish_rendering(@),
                                !.pc = "returned"]
    /\ UNCHANGED << scene, render_pc, gl_log, pass_log, shader_program,
                    shadow_box, world_to_lightspace, scene_pc,
                    loader_vars, life_vars, manager >>

\* the next frame calls render with the same particles
ParticleRenderer_render ==
    /\ particle_renderer # None
    /\ particle_renderer.pc = "returned"
    /\ particle_renderer' = [particle_renderer EXCEPT !.pc = "render"]
    /\ UNCHANGED << scene, render_pc, gl_log, pass_log, shader_program,
                    shadow_box, world_to_lightspace, scene_pc,
                    loader_vars, life_vars, manager >>

\* render is called with a map of particles
ParticleInit ==
    /\ LoaderInit
    /\ unreadable = {}
    /\ manager = ManagerDefault
    /\ FrameIdle
    /\ shader_program = None
    /\ shadow_box = None
    /\ world_to_lightspace = None
    /\ scene_pc = None
    /\ \E particles \in ParticleMaps, gl \in GlStates :
          particle_renderer = [particles |-> particles,
                               gl |-> gl,
                               pending |-> {},
                               draws |-> << >>,
                               pc |-> "render"]

ParticleNext ==
    \/ ParticleRenderer_prepare
    \/ ParticleRenderer_for
    \/ ParticleRenderer_finish_rendering
    \/ ParticleRenderer_render

ParticleSpec == ParticleInit /\ [][ParticleNext]_vars

\* C32: every particle is drawn with depth writes switched off and blending
\* switched on, and when render has returned depth writes are on, blending
\* is off and the particle shader is stopped, whatever the map of particles
\* was, the empty one included
C32_ParticleStateSetAndRestored ==
    particle_renderer # None =>
        /\ \A i \in 1 .. Len(particle_renderer.draws) :
               /\ ~particle_renderer.draws[i].gl.depth_mask
               /\ particle_renderer.draws[i].gl.blend
        /\ particle_renderer.pc = "returned" =>
               /\ particle_renderer.gl.depth_mask
               /\ ~particle_renderer.gl.blend
               /\ ~particle_renderer.gl.shader_started

\* render has returned after drawing the particles of both textures
C32_Witness ==
    /\ particle_renderer # None
    /\ particle_renderer.pc = "returned"
    /\ Len(particle_renderer.draws) = 3
    /\ particle_renderer.draws[1].texture.additive
    /\ ~particle_renderer.draws[3].texture.additive

\* render has returned from the empty map
C32_WitnessEmptyMap ==
    /\ particle_renderer # None
    /\ particle_renderer.pc = "returned"
    /\ DOMAIN particle_renderer.particles = {}
    /\ particle_renderer.gl.blend_func = "none"

\* ------------------------------------------------------------------------
\* What a frame draws
\* ------------------------------------------------------------------------

\* how often the renderer drew the entity, terrain or player in the stage
\* just run
Draws(renderer, call, drawn) ==
    Cardinality({i \in 1 .. Len(pass_log) :
                    /\ pass_log[i].renderer = renderer
                    /\ pass_log[i].call = call
                    /\ pass_log[i].entity = Some(drawn)})

shadow_pass_done == render_pc = "do_water_render_passes"

render_pass_done ==
    \/ render_pc = "refraction"
    \/ render_pc = "render_pass" /\ scene.water_tiles > 0
    \/ render_pc = "water_renderer.render"

\* C31: the shadow pass draws every entity of the opaque list, every entity
\* of the normal-mapped list and every terrain exactly once, a static-model
\* player exactly once, invisible or not, and an animated player not at
\* all; a render_pass draws the player exactly once, with the entity
\* renderer if it is a static model and with the animated renderer if it is
\* animated, and not at all if it is flagged invisible
C31_EveryEntityDrawnOnce ==
    /\ shadow_pass_done =>
           /\ \A i \in 1 .. Len(scene.entities) :
                  Draws("shadowmap_renderer", "render_entity",
                        scene.entities[i]) = 1
           /\ \A i \in 1 .. Len(scene.normal_mapped_entities) :
                  Draws("shadowmap_renderer", "render_entity",
                        scene.normal_mapped_entities[i]) = 1
           /\ \A i \in 1 .. Len(scene.terrains) :
                  Draws("shadowmap_renderer", "draw_elements",
                        scene.terrains[i]) = 1
           /\ Draws("shadowmap_renderer", "render_entity",
                    scene.player.entity)
                  = IF scene.player.entity.kind = "StaticModelEntity"
                    THEN 1 ELSE 0
    /\ render_pass_done =>
           /\ Draws("entity_renderer", "render", scene.player.entity)
                  = IF scene.player.entity.kind = "StaticModelEntity"
                        /\ ~scene.player.is_invisible_immovable
                    THEN 1 ELSE 0
           /\ Draws("animated_entity_renderer", "render", scene.player.entity)
                  = IF scene.player.entity.kind = "AnimatedModelEntity"
                        /\ ~scene.player.is_invisible_immovable
                    THEN 1 ELSE 0

\* the shadow pass of a scene with two terrains and an invisible static
\* player has run
C31_Witness ==
    /\ shadow_pass_done
    /\ Len(scene.terrains) = 2
    /\ Len(scene.entities) = 1
    /\ Len(scene.normal_mapped_entities) = 1
    /\ scene.player.entity.kind = "StaticModelEntity"
    /\ scene.player.is_invisible_immovable
    /\ Draws("shadowmap_renderer", "render_entity", scene.player.entity) = 1

\* the main pass of a scene with a visible animated player has run
C31_WitnessRenderPass ==
    /\ render_pc = "water_renderer.render"
    /\ scene.player.entity.kind = "AnimatedModelEntity"
    /\ ~scene.player.is_invisible_immovable
    /\ Draws("animated_entity_renderer", "render", scene.player.entity) = 1

IsEnvMapPrepare(renderer_call) ==
    /\ renderer_call.renderer = "env_map_renderer"
    /\ renderer_call.call = "prepare_textured_model"

IsEnvMapUnprepare(renderer_call) ==
    /\ renderer_call.renderer = "env_map_renderer"
    /\ renderer_call.call = "unprepare_textured_model"

\* C38: when EnvMapRenderer::render has returned, every
\* prepare_textured_model it made was followed by an
\* unprepare_textured_model before the next prepare_textured_model and
\* before the return
C38_EnvMapPrepareIsUnprepared ==
    render_pc = "particle_master.render" =>
        \A i \in 1 .. Len(pass_log) :
            IsEnvMapPrepare(pass_log[i]) =>
                \E j \in (i + 1) .. Len(pass_log) :
                    /\ IsEnvMapUnprepare(pass_log[j])
                    /\ \A k \in (i + 1) .. (j - 1) :
                           ~IsEnvMapPrepare(pass_log[k])

\* C39: a render call with an empty light list does not get past the shadow
\* pass: it ends in a panic once the shadow framebuffer is bound, before
\* the shadow map renderer is entered and before any draw
C39_EmptyLightListIsFatal ==
    (Len(scene.lights) = 0 /\ render_pc # "idle") =>
        /\ render_pc \in {"do_shadowmap_render_passes", "panicked"}
        /\ pass_log = << >>
        /\ ~Occurs(gl_log, MasterCall("begin", "shadow"))
        /\ render_pc = "panicked" =>
               /\ bound_framebuffer(gl_log) = "ShadowMapFBO"
               /\ gl_log[Len(gl_log)] =
                      MasterCall("panic",
                                 "index out of bounds: the len is 0 but the index is 0")

\* a frame without lights has ended in the panic with the shadow framebuffer
\* bound
C39_Witness ==
    /\ Len(scene.lights) = 0
    /\ render_pc = "panicked"
    /\ Len(scene.entities) = 1
    /\ gl_log[Len(gl_log) - 1] = MasterCall("bind", "ShadowMapFBO")
====
